---- MODULE Spec2Model ----
(***************************************************************************)
(* LinkGuardBot risk engine: analyze_url (src/risk_engine.py) and the      *)
(* SSRF-guarded fetcher safe_fetch (src/checks/http_fetch.py).             *)
(*                                                                         *)
(* Message texts of the program are Russian; the model writes them in      *)
(* Latin transliteration (taimaut = timeout, oshibka = error), so that two *)
(* texts are equal in the model exactly when they are equal in the code.   *)
(***************************************************************************)
EXTENDS Integers, Sequences, FiniteSets, TLC

VARIABLES
    pc,        \* position of analyze_url: start, gather, scan, returned, raised
    inp,       \* arguments of analyze_url
    tasks,     \* the four _with_timeout tasks of the fan-out
    acc,       \* score, reasons, technical, intel, unavailable being built
    scan,      \* the _with_timeout task of the deep scan
    report,    \* the Report returned
    io,        \* history: what the keyed lookups did to the network and the cache
    prior,     \* history: outcomes and Report of the run before, when it is repeated
    fpc,       \* position of safe_fetch: idle, check, get, done, raised
    furl,      \* argument of safe_fetch
    current,   \* safe_fetch: URL of the current hop
    step,      \* safe_fetch: loop index
    chain,     \* safe_fetch: redirect chain
    ips,       \* safe_fetch: addresses _host_is_allowed validated for this hop
    checked,   \* history: hops that passed the scheme and host checks
    gets,      \* history: GET requests sent, with the address connected to
    reads,     \* history: responses received, with the body bytes read of each
    fres,      \* the FetchResult returned
    nin,       \* normalize_url: the raw text it is called with
    nout,      \* normalize_url: what the call gave
    now,       \* threat feeds: loop.time()
    mem,       \* threat feeds: _cache[name], the in-memory snapshot
    disk,      \* threat feeds: the feed file
    meta,      \* threat feeds: meta.json's time for the feed
    lpc,       \* threat feeds: position of check_url: idle, fetch, done, raised
    lres,      \* threat feeds: the FeedData _load_feed returned
    iin,       \* is_forbidden_ip: the text it is called with
    iout,      \* is_forbidden_ip: what the call gave
    cpc,       \* concurrent _load_feed calls: position of each: idle, fetch, returned, raised
    cloc,      \* concurrent _load_feed calls: the locals now and cached_at of each
    cres,      \* concurrent _load_feed calls: what each call returned
    gcache,    \* safe browsing: _cache, in insertion order
    gpc,       \* safe_browsing.check_url calls: position of each: idle, request, backoff, returned
    gloc,      \* safe_browsing.check_url calls: the locals normalized and attempt of each,
               \* and, during the backoff, how the first attempt ended
    gres,      \* safe_browsing.check_url calls: what each call returned
    gsent,     \* history: remote requests sent by each call
    lin,       \* threat feeds: the url and host check_url is called with
    lout,      \* threat feeds: the findings check_url returned
    upc,       \* urlscan.scan_url: position: idle, post, backoff, wait, poll, returned, raised
    uattempt,  \* urlscan.scan_url: the loop index attempt
    usent,     \* history: the requests scan_url sent and how each ended
    ures,      \* urlscan.scan_url: the UrlscanResult returned
    vpc,       \* reputation.check_reputation: position: idle, request, returned, raised
    vsent,     \* history: requests check_reputation sent
    vres,      \* reputation.check_reputation: the ReputationResult returned
    wkey,      \* history: the key of the last _cache_set
    wbefore,   \* history: _cache before the last _cache_set
    wn         \* history: number of _cache_set calls made

avars == <<pc, inp, tasks, acc, scan, report, io, prior>>
fvars == <<fpc, furl, current, step, chain, ips, checked, gets, reads, fres>>
nvars == <<nin, nout>>
dvars == <<now, mem, disk, meta, lpc, lres>>
ivars == <<iin, iout>>
cvars == <<cpc, cloc, cres>>
gvars == <<gcache, gpc, gloc, gres, gsent>>
qvars == <<lin, lout>>
uvars == <<upc, uattempt, usent, ures>>
vvars == <<vpc, vsent, vres>>
wvars == <<wkey, wbefore, wn>>
vars == <<pc, inp, tasks, acc, scan, report, io, prior,
          fpc, furl, current, step, chain, ips, checked, gets, reads, fres,
          nin, nout, now, mem, disk, meta, lpc, lres, iin, iout,
          cpc, cloc, cres, gcache, gpc, gloc, gres, gsent, lin, lout,
          upc, uattempt, usent, ures, vpc, vsent, vres, wkey, wbefore, wn>>

None == "None"

Max(a, b) == IF a >= b THEN a ELSE b
Min(a, b) == IF a <= b THEN a ELSE b

RECURSIVE JoinSep(_, _)
\* sep.join(items)
JoinSep(items, sep) ==
    IF Len(items) = 0 THEN ""
    ELSE IF Len(items) = 1 THEN items[1]
    ELSE items[1] \o sep \o JoinSep(Tail(items), sep)

Join(items) == JoinSep(items, ", ")

RECURSIVE SumScores(_)
SumScores(fs) == IF Len(fs) = 0 THEN 0 ELSE fs[1].score + SumScores(Tail(fs))

Range(s) == {s[i] : i \in 1..Len(s)}

Count(s, x) == Cardinality({i \in 1..Len(s) : s[i] = x})

(***************************************************************************)
(* URLs.  A URL is [scheme, host, path]; a raw input carries, besides the  *)
(* URL it denotes, what normalize_url and evaluate_risk read from its text.*)
(***************************************************************************)
Url(s, h, p) == [scheme |-> s, host |-> h, path |-> p]

\* urlunsplit: "//" goes before the netloc, and before an empty one when the
\* scheme is one that takes a netloc
UrlStr(u) ==
    IF u.scheme = "" THEN (IF u.host = "" THEN u.path ELSE "//" \o u.host \o u.path)
    ELSE IF u.host = "" /\ u.scheme \notin {"http", "https", "ftp"} THEN u.scheme \o ":" \o u.path
    ELSE u.scheme \o "://" \o u.host \o u.path

\* One raw input.  blank: empty after strip(); parses: urlsplit and .port
\* accept it; has_scheme: "://" occurs in it.
Raw(blank, parses, has_scheme, url, at, is_ip, params, labels, host_len, hyphens, digits) ==
    [blank |-> blank, parses |-> parses, has_scheme |-> has_scheme, url |-> url,
     at |-> at, is_ip |-> is_ip, params |-> params, labels |-> labels,
     host_len |-> host_len, hyphens |-> hyphens, digits |-> digits]

RawEmpty == Raw(TRUE, TRUE, FALSE, Url("", "", ""), FALSE, FALSE, <<>>, 0, 0, 0, 0)
\* "http://example.com:99999/": parts.port raises ValueError
RawBadPort == Raw(FALSE, FALSE, TRUE, Url("http", "example.com", "/"), FALSE, FALSE, <<>>, 2, 11, 0, 0)
\* "example.com"
RawPlain == Raw(FALSE, TRUE, FALSE, Url("", "example.com", ""), FALSE, FALSE, <<>>, 2, 11, 0, 0)
\* "https://bit.ly/x?ok=1"
RawShort == Raw(FALSE, TRUE, TRUE, Url("https", "bit.ly", "/x"), FALSE, FALSE, <<>>, 2, 6, 0, 0)
\* "http://user@10.0.0.123/?next=a&url=b"
RawIp == Raw(FALSE, TRUE, TRUE, Url("http", "10.0.0.123", "/"), TRUE, TRUE, <<"next", "url">>, 4, 10, 0, 7)
\* "http://u@a-1.b-2.c-3.d-4.e-5.secure-login-account-update.example.com/p?return=x"
RawDeep == Raw(FALSE, TRUE, TRUE, Url("http", "a-1.b-2.c-3.d-4.e-5.secure-login-account-update.example.com", "/p"),
               TRUE, FALSE, <<"return">>, 8, 59, 8, 5)

RawUrls == {RawEmpty, RawBadPort, RawPlain, RawShort, RawIp, RawDeep}

SHORTENERS == {"bit.ly", "t.co", "tinyurl.com", "goo.gl", "ow.ly", "buff.ly", "cutt.ly",
               "is.gd", "bitly.com", "rebrand.ly", "tiny.cc", "t.ly", "lc.chat"}

Raises == [raises |-> TRUE]

\* An internationalized host in its two written forms: punycode, and the
\* Unicode text (Cyrillic in the tests) written here as u(...)
IdnPunycode == "xn--e1afmkfd.xn--p1ai"
IdnUnicode == "u(primer.rf)"

\* str.lower() on the schemes and hosts the model uses
LowerText(t) ==
    CASE t = "HTTPS" -> "https"
      [] t = "EXAMPLE.com" -> "example.com"
      [] t = "XN--E1AFMKFD.XN--P1AI" -> "xn--e1afmkfd.xn--p1ai"
      [] t = "BAD.example" -> "bad.example"
      [] t = "/Mal.EXE/" -> "/mal.exe/"
      [] OTHER -> t

\* "xn--" in host
HasXn(host) == host \in {IdnPunycode, "xn--a.com"}

\* host.encode("ascii").decode("idna"): UnicodeError for a label that is not
\* valid punycode
IdnaDecode(host) ==
    IF host = IdnPunycode THEN [raises |-> FALSE, text |-> IdnUnicode]
    ELSE [raises |-> TRUE]

decode_idn(host) ==
    IF host = "" THEN host
    ELSE IF HasXn(host)
         THEN (IF IdnaDecode(host).raises THEN host ELSE IdnaDecode(host).text)
         ELSE host

\* normalize_url: ValueError on an empty input or one urlsplit/.port rejects;
\* an input without "://" is read with "https://" before it, scheme and host
\* are lowercased, the path defaults to "/", the host is decoded for display.
normalize_url(raw) ==
    IF raw.blank \/ ~raw.parses THEN Raises
    ELSE LET scheme == IF raw.has_scheme THEN LowerText(raw.url.scheme) ELSE "https"
             host == LowerText(raw.url.host)
             path == IF raw.url.path = "" THEN "/" ELSE raw.url.path
         IN  [raises |-> FALSE, original |-> raw, scheme |-> scheme,
              host |-> host, path |-> path,
              normalized |-> Url(scheme, host, path),
              display_host |-> decode_idn(host)]

\* evaluate_risk: additive structural checks, in the order of the code.
evaluate_risk(n) ==
    LET o == n.original
        r1 == IF o.at THEN <<[score |-> 15, reason |-> "Simvol @ v ssylke."]>> ELSE <<>>
        r2 == IF o.is_ip THEN <<[score |-> 20, reason |-> "Vmesto domena IP-adres."]>> ELSE <<>>
        r3 == IF n.host \in SHORTENERS THEN <<[score |-> 10, reason |-> "Servis sokrashcheniya ssylok."]>> ELSE <<>>
        r4 == IF Len(o.params) > 0
              THEN <<[score |-> 15, reason |-> "Podozritelnye parametry: " \o Join(o.params)]>> ELSE <<>>
        r5 == IF o.labels > 4 THEN <<[score |-> 10, reason |-> "Slishkom mnogo poddomenov."]>> ELSE <<>>
        r6 == IF o.host_len > 50 THEN <<[score |-> 10, reason |-> "Domen slishkom dlinnyi."]>> ELSE <<>>
        r7 == IF o.hyphens >= 4 THEN <<[score |-> 10, reason |-> "V domene mnogo defisov."]>> ELSE <<>>
        r8 == IF o.digits >= 5 THEN <<[score |-> 10, reason |-> "V domene mnogo tsifr."]>> ELSE <<>>
        r9 == IF n.scheme # "https" THEN <<[score |-> 5, reason |-> "Ssylka ne ispolzuet HTTPS."]>> ELSE <<>>
        all == r1 \o r2 \o r3 \o r4 \o r5 \o r6 \o r7 \o r8 \o r9
    IN  [score |-> SumScores(all), reasons |-> [i \in 1..Len(all) |-> all[i].reason]]

(***************************************************************************)
(* Results of the operations analyze_url awaits.                           *)
(***************************************************************************)
FetchResult(final_url, status, headers, body_text, content_type, redirect_chain, blocked_reason, error) ==
    [final_url |-> final_url, status |-> status, headers |-> headers,
     body_text |-> body_text, content_type |-> content_type,
     redirect_chain |-> redirect_chain, blocked_reason |-> blocked_reason, error |-> error]

REQUIRED_HEADERS == <<"Strict-Transport-Security", "Content-Security-Policy",
                      "X-Frame-Options", "X-Content-Type-Options", "Referrer-Policy">>

\* str.lower() on the header names the model uses
Lower(h) ==
    CASE h = "Strict-Transport-Security" -> "strict-transport-security"
      [] h = "Content-Security-Policy" -> "content-security-policy"
      [] h = "X-Frame-Options" -> "x-frame-options"
      [] h = "X-FRAME-OPTIONS" -> "x-frame-options"
      [] h = "X-Content-Type-Options" -> "x-content-type-options"
      [] h = "Referrer-Policy" -> "referrer-policy"
      [] OTHER -> h

missing_security_headers(headers) ==
    LET present == {Lower(k) : k \in headers}
    IN  SelectSeq(REQUIRED_HEADERS, LAMBDA h : Lower(h) \notin present)

AllHeaders == {"strict-transport-security", "Content-Security-Policy", "X-FRAME-OPTIONS",
               "X-Content-Type-Options", "Referrer-Policy", "Content-Type"}

\* A body text, by what analyze_html's patterns find in it.  action is the
\* first action="..." attribute: its host, whether it starts with mailto:,
\* whether it starts with http://.  NoBody is body_text = None.
Page(form, password, email, action, post, iframe, refresh, scripts, words, danger) ==
    [present |-> TRUE, empty |-> FALSE, form |-> form, password |-> password, email |-> email, action |-> action,
     post |-> post, iframe |-> iframe, refresh |-> refresh, scripts |-> scripts,
     words |-> words, danger |-> danger]

NoBody == [present |-> FALSE]
\* body_text = "": a text/html response without content
EmptyBody == [present |-> TRUE, empty |-> TRUE]
NoAction == [present |-> FALSE]
Action(host, mailto, http) == [present |-> TRUE, host |-> host, mailto |-> mailto, http |-> http]

PageBlank == Page(FALSE, FALSE, FALSE, NoAction, FALSE, FALSE, FALSE, {}, <<>>, <<>>)
PageEmailForm == Page(TRUE, FALSE, TRUE, Action("", TRUE, FALSE),
                      TRUE, FALSE, FALSE, {}, <<"confirm">>, <<>>)
PagePhish == Page(TRUE, TRUE, TRUE, Action("evil.example", FALSE, TRUE),
                  TRUE, TRUE, TRUE, {"cdn1.example", "cdn2.example", "cdn3.example"},
                  <<"login", "password">>, <<"download">>)

Finding(reason, technical, score) == [reason |-> reason, technical |-> technical, score |-> score]

\* content_scan.analyze_html
analyze_html(html, base_host) ==
    LET f1 == IF html.form /\ html.password
              THEN <<Finding("Obnaruzhena forma vvoda parolya.", "Kontent: forma s polem password", 25)>>
              ELSE IF html.form /\ html.email
              THEN <<Finding("Obnaruzhena forma s email-polem.", "Kontent: forma s polem email", 12)>>
              ELSE IF html.form
              THEN <<Finding("Na stranitse est forma vvoda dannyh.", "Kontent: forma vvoda", 10)>>
              ELSE <<>>
        a == html.action
        f2 == IF a.present /\ a.host # "" /\ a.host # base_host
              THEN <<Finding("Forma otpravlyaet dannye na drugoi domen.", "Kontent: form action -> " \o a.host, 15)>>
              ELSE <<>>
        f3 == IF a.present /\ a.mailto
              THEN <<Finding("Forma otpravlyaet dannye na email.", "Kontent: form action -> mailto", 15)>>
              ELSE <<>>
        f4 == IF a.present /\ a.http
              THEN <<Finding("Forma otpravlyaet dannye po nezashchishchennomu HTTP.", "Kontent: form action -> http", 10)>>
              ELSE <<>>
        f5 == IF html.post /\ html.form
              THEN <<Finding("Forma otpravlyaet dannye metodom POST.", "Kontent: form method=post", 5)>>
              ELSE <<>>
        f6 == IF html.iframe THEN <<Finding("Na stranitse ispolzuyutsya iframe.", "Kontent: iframe", 6)>> ELSE <<>>
        f7 == IF html.refresh THEN <<Finding("Est auto-redirect cherez meta refresh.", "Kontent: meta refresh", 8)>> ELSE <<>>
        f8 == IF Cardinality({h \in html.scripts : h # base_host}) >= 3
              THEN <<Finding("Podklyucheno mnogo vneshnih skriptov.", "Kontent: vneshnie skripty", 8)>>
              ELSE <<>>
        f9 == IF Len(html.words) > 0
              THEN <<Finding("Est slova, harakternye dlya fishinga ili logina.",
                             "Kontent: klyuchevye slova: " \o Join(html.words), 5)>>
              ELSE <<>>
        f10 == IF Len(html.danger) > 0
               THEN <<Finding("Est priznaki navyazyvaniya zagruzki ili obnovleniya.",
                              "Kontent: slova: " \o Join(html.danger), 8)>>
               ELSE <<>>
    IN  f1 \o f2 \o f3 \o f4 \o f5 \o f6 \o f7 \o f8 \o f9 \o f10

\* _redirect_summary counting the hosts of the chain without the final URL
redirect_summary_ChainOnly(chain_, final_url) ==
    IF Len(chain_) = 0 THEN [score |-> 0, reason |-> None]
    ELSE LET hosts == {chain_[i].host : i \in 1..Len(chain_)}
             host_changes == Cardinality({h \in hosts : h # ""})
         IN  IF host_changes > 1 THEN [score |-> 10, reason |-> "Redirekty na raznye domeny."]
             ELSE IF Len(chain_) >= 2 THEN [score |-> 5, reason |-> "Neskolko redirektov podryad."]
             ELSE [score |-> 0, reason |-> None]

\* _redirect_summary: [score, reason]
redirect_summary(chain_, final_url) ==
    IF Len(chain_) = 0 THEN [score |-> 0, reason |-> None]
    ELSE LET hosts == {chain_[i].host : i \in 1..Len(chain_)} \cup {final_url.host}
             host_changes == Cardinality({h \in hosts : h # ""})
         IN  IF host_changes > 1 THEN [score |-> 10, reason |-> "Redirekty na raznye domeny."]
             ELSE IF Len(chain_) >= 2 THEN [score |-> 5, reason |-> "Neskolko redirektov podryad."]
             ELSE [score |-> 0, reason |-> None]

FeedFinding(source, match_type, detail) ==
    [source |-> source, match_type |-> match_type, detail |-> detail]

\* threat_feeds.check_url returns one finding at most for each feed of FEEDS
FeedResults ==
    {<<>>,
     <<FeedFinding("URLhaus", "url", "sovpadenie URL")>>,
     <<FeedFinding("URLhaus", "domain", "sovpadenie domena (kesh ustarel)")>>}

LookupResult(status, detail) == [status |-> status, detail |-> detail]

GsbNotConfigured == LookupResult("not_configured", "Google Safe Browsing: ne nastroeno.")
GsbClean == LookupResult("clean", "Google Safe Browsing: ugroz ne naideno.")
GsbHit == LookupResult("hit", "Google Safe Browsing: obnaruzheny ugrozy (vredonosnoe PO).")
GsbError == LookupResult("error", "Google Safe Browsing: taimaut.")
\* returned before the cache is read: the URL is longer than MAX_URL_LENGTH
GsbTooLong == LookupResult("error", "Google Safe Browsing: URL slishkom dlinnyi dlya proverki.")

VtNotConfigured == LookupResult("not_configured", "VirusTotal: not configured (optional).")
VtClean == LookupResult("clean", "VirusTotal: not found (maybe needs analysis).")
VtHit == LookupResult("hit", "VirusTotal: detections 3/70 (malicious=2, suspicious=1).")
VtError == LookupResult("error", "VirusTotal: timeout.")

UrlscanResult(status, detail, result_url) ==
    [status |-> status, detail |-> detail, result_url |-> result_url]

ScanNotConfigured == UrlscanResult("not_configured", "urlscan.io: ne nastroeno.", None)
ScanReady == UrlscanResult("ready", "urlscan.io: otchet gotov.", "https://urlscan.io/result/u1/")
ScanQueued == UrlscanResult("queued", "urlscan.io: otchet v ocheredi.", "https://urlscan.io/result/u1/")
ScanError == UrlscanResult("error", "urlscan.io: taimaut.", None)

\* Results safe_fetch returns for the URL u: blocked, transport error, too
\* many redirects, and successes with and without headers, redirects, body.
FetchResults(u) ==
    LET same == Url(u.scheme, u.host, "/next")
        other == Url("http", "landing.example", "/")
    IN  {FetchResult(u, None, {}, NoBody, None, <<>>, "Domen rezolvitsya v privatnyi adres 10.0.0.5.", None),
         FetchResult(u, None, {}, NoBody, None, <<>>, None, "Taimaut zaprosa."),
         FetchResult(same, "302", {"Location"}, NoBody, None, <<u, same, same, same, same, same>>,
                     None, "Slishkom mnogo redirektov."),
         FetchResult(u, "200", {}, NoBody, None, <<>>, None, None),
         FetchResult(same, "200", AllHeaders, PageBlank, "text/html", <<u>>, None, None),
         FetchResult(same, "200", {"X-FRAME-OPTIONS", "Referrer-Policy", "Content-Type"},
                     PageEmailForm, "text/html; charset=utf-8", <<u, same>>, None, None),
         FetchResult(other, "404", {"Content-Type"}, PagePhish, "text/html", <<u>>, None, None),
         FetchResult(u, "200", AllHeaders, EmptyBody, "text/html", <<>>, None, None)}

(***************************************************************************)
(* analyze_url                                                             *)
(***************************************************************************)
Sources == {"feeds", "gsb", "fetch", "vt"}

Label(t) ==
    CASE t = "feeds" -> "Publichnye bazy"
      [] t = "gsb" -> "Google Safe Browsing"
      [] t = "fetch" -> "HTTP zapros"
      [] t = "vt" -> "VirusTotal"
      [] t = "scan" -> "urlscan.io"

Returns(value) == [kind |-> "return", value |-> value]
RaisesExc == [kind |-> "raise"]
TimesOut == [kind |-> "timeout"]

Wrapped(state, payload) == [st |-> "done", state |-> state, payload |-> payload]

\* with_timeout without its "except Exception": the exception leaves the wrapper
with_timeout_NoCatch(beh, label) ==
    CASE beh.kind = "return" -> Wrapped("ok", beh.value)
      [] beh.kind = "timeout" -> Wrapped("timeout", label \o ": taimaut.")
      [] beh.kind = "raise" -> Wrapped("raise", label)

\* _with_timeout, by what the awaited coroutine does before the timer fires
with_timeout(beh, label) ==
    CASE beh.kind = "return" -> Wrapped("ok", beh.value)
      [] beh.kind = "timeout" -> Wrapped("timeout", label \o ": taimaut.")
      [] beh.kind = "raise" -> Wrapped("error", label \o ": oshibka.")

Acc(score, reasons, technical, intel, unavailable) ==
    [score |-> score, reasons |-> reasons, technical |-> technical,
     intel |-> intel, unavailable |-> unavailable]

\* MergeFeeds with "score += 60" inside the loop over the findings
MergeFeeds_PerFinding(a, w) ==
    IF w.state = "ok"
    THEN LET feed_hits == w.payload
         IN  IF Len(feed_hits) > 0
             THEN [a EXCEPT !.score = @ + 60 * Len(feed_hits),
                            !.intel = @ \o [i \in 1..Len(feed_hits) |->
                                              feed_hits[i].source \o ": " \o feed_hits[i].detail],
                            !.reasons = Append(@, "Sovpadenie v publichnyh bazah ugroz.")]
             ELSE [a EXCEPT !.intel = Append(@, "Publichnye bazy: sovpadenii net.")]
    ELSE [a EXCEPT !.unavailable = Append(@, w.payload)]

\* lines 90-101
MergeFeeds(a, w) ==
    IF w.state = "ok"
    THEN LET feed_hits == w.payload
         IN  IF Len(feed_hits) > 0
             THEN [a EXCEPT !.score = @ + 60,
                            !.intel = @ \o [i \in 1..Len(feed_hits) |->
                                              feed_hits[i].source \o ": " \o feed_hits[i].detail],
                            !.reasons = Append(@, "Sovpadenie v publichnyh bazah ugroz.")]
             ELSE [a EXCEPT !.intel = Append(@, "Publichnye bazy: sovpadenii net.")]
    ELSE [a EXCEPT !.unavailable = Append(@, w.payload)]

\* MergeGsb without the else branch of line 111: a failed lookup leaves no trace
MergeGsb_DropsFailure(a, w) ==
    IF w.state = "ok"
    THEN LET a1 == [a EXCEPT !.intel = Append(@, w.payload.detail)]
         IN  IF w.payload.status = "hit"
             THEN [a1 EXCEPT !.score = Max(@, 80),
                             !.reasons = Append(@, "Google Safe Browsing: obnaruzheny ugrozy.")]
             ELSE IF w.payload.status = "error"
             THEN [a1 EXCEPT !.unavailable = Append(@, w.payload.detail)]
             ELSE a1
    ELSE a

\* MergeGsb without the floor of line 107: a hit adds its reason only
MergeGsb_NoFloor(a, w) ==
    IF w.state = "ok"
    THEN LET a1 == [a EXCEPT !.intel = Append(@, w.payload.detail)]
         IN  IF w.payload.status = "hit"
             THEN [a1 EXCEPT !.reasons = Append(@, "Google Safe Browsing: obnaruzheny ugrozy.")]
             ELSE IF w.payload.status = "error"
             THEN [a1 EXCEPT !.unavailable = Append(@, w.payload.detail)]
             ELSE a1
    ELSE [a EXCEPT !.unavailable = Append(@, w.payload)]

\* lines 103-112
MergeGsb(a, w) ==
    IF w.state = "ok"
    THEN LET a1 == [a EXCEPT !.intel = Append(@, w.payload.detail)]
         IN  IF w.payload.status = "hit"
             THEN [a1 EXCEPT !.score = Max(@, 80),
                             !.reasons = Append(@, "Google Safe Browsing: obnaruzheny ugrozy.")]
             ELSE IF w.payload.status = "error"
             THEN [a1 EXCEPT !.unavailable = Append(@, w.payload.detail)]
             ELSE a1
    ELSE [a EXCEPT !.unavailable = Append(@, w.payload)]

\* MergeVt setting the score to 70 on a hit: a higher running score is lowered
MergeVt_Overwrites(a, w) ==
    IF w.state = "ok"
    THEN LET a1 == [a EXCEPT !.intel = Append(@, w.payload.detail)]
         IN  IF w.payload.status = "hit"
             THEN [a1 EXCEPT !.score = 70,
                             !.reasons = Append(@, "VirusTotal: obnaruzheny srabatyvaniya.")]
             ELSE IF w.payload.status = "error"
             THEN [a1 EXCEPT !.unavailable = Append(@, w.payload.detail)]
             ELSE a1
    ELSE [a EXCEPT !.unavailable = Append(@, w.payload)]

\* lines 114-123
MergeVt(a, w) ==
    IF w.state = "ok"
    THEN LET a1 == [a EXCEPT !.intel = Append(@, w.payload.detail)]
         IN  IF w.payload.status = "hit"
             THEN [a1 EXCEPT !.score = Max(@, 70),
                             !.reasons = Append(@, "VirusTotal: obnaruzheny srabatyvaniya.")]
             ELSE IF w.payload.status = "error"
             THEN [a1 EXCEPT !.unavailable = Append(@, w.payload.detail)]
             ELSE a1
    ELSE [a EXCEPT !.unavailable = Append(@, w.payload)]

\* lines 136-160: a fetch that was neither blocked nor failed
MergeFetchSuccess(a, r, host) ==
    LET missing == missing_security_headers(r.headers)
        t1 == <<"HTTP status: " \o r.status, "Finalnyi URL: " \o UrlStr(r.final_url)>>
              \o (IF r.content_type # None /\ r.content_type # ""
                  THEN <<"Content-Type: " \o r.content_type>> ELSE <<>>)
        a1 == [a EXCEPT !.technical = @ \o t1]
        a2 == IF Len(missing) > 0
              THEN [a1 EXCEPT !.score = @ + Min(25, 5 * Len(missing)),
                              !.reasons = Append(@, "Net zashchitnyh zagolovkov: " \o Join(missing)),
                              !.technical = Append(@, "Zashchitnye zagolovki: otsutstvuyut " \o Join(missing))]
              ELSE [a1 EXCEPT !.technical = Append(@, "Zashchitnye zagolovki: vse osnovnye prisutstvuyut")]
        rs == redirect_summary(r.redirect_chain, r.final_url)
        hops == [i \in 1..Len(r.redirect_chain) |-> UrlStr(r.redirect_chain[i])]
        a3 == IF Len(r.redirect_chain) > 0
              THEN LET a30 == [a2 EXCEPT !.technical =
                                  Append(@, "Redirekty: " \o JoinSep(Append(hops, UrlStr(r.final_url)), " -> "))]
                   IN  IF rs.reason # None
                       THEN [a30 EXCEPT !.score = @ + rs.score, !.reasons = Append(@, rs.reason)]
                       ELSE a30
              ELSE a2
        findings == IF r.body_text.present /\ ~r.body_text.empty
                    THEN analyze_html(r.body_text, host) ELSE <<>>
    IN  [a3 EXCEPT !.score = @ + SumScores(findings),
                   !.reasons = @ \o [i \in 1..Len(findings) |-> findings[i].reason],
                   !.technical = @ \o [i \in 1..Len(findings) |-> findings[i].technical]]

\* MergeFetch taking a fetch that did not come back for a transport error (+5)
MergeFetch_ScoresFailure(a, w, host) ==
    IF w.state = "ok"
    THEN LET r == w.payload
         IN  IF r.blocked_reason # None /\ r.blocked_reason # ""
             THEN [a EXCEPT !.score = @ + 25,
                            !.reasons = Append(@, r.blocked_reason),
                            !.technical = Append(@, "Zapros zablokirovan: " \o r.blocked_reason)]
             ELSE IF r.error # None /\ r.error # ""
             THEN [a EXCEPT !.score = @ + 5,
                            !.reasons = Append(@, "Ne udalos bezopasno poluchit otvet saita."),
                            !.unavailable = Append(@, r.error)]
             ELSE MergeFetchSuccess(a, r, host)
    ELSE [a EXCEPT !.score = @ + 5, !.unavailable = Append(@, w.payload)]

\* MergeFetch listing a blocked fetch in unavailable as well
MergeFetch_BlockedUnavailable(a, w, host) ==
    IF w.state = "ok"
    THEN LET r == w.payload
         IN  IF r.blocked_reason # None /\ r.blocked_reason # ""
             THEN [a EXCEPT !.score = @ + 25,
                            !.reasons = Append(@, r.blocked_reason),
                            !.technical = Append(@, "Zapros zablokirovan: " \o r.blocked_reason),
                            !.unavailable = Append(@, r.blocked_reason)]
             ELSE IF r.error # None /\ r.error # ""
             THEN [a EXCEPT !.score = @ + 5,
                            !.reasons = Append(@, "Ne udalos bezopasno poluchit otvet saita."),
                            !.unavailable = Append(@, r.error)]
             ELSE MergeFetchSuccess(a, r, host)
    ELSE [a EXCEPT !.unavailable = Append(@, w.payload)]

\* lines 125-162
MergeFetch(a, w, host) ==
    IF w.state = "ok"
    THEN LET r == w.payload
         IN  IF r.blocked_reason # None /\ r.blocked_reason # ""
             THEN [a EXCEPT !.score = @ + 25,
                            !.reasons = Append(@, r.blocked_reason),
                            !.technical = Append(@, "Zapros zablokirovan: " \o r.blocked_reason)]
             ELSE IF r.error # None /\ r.error # ""
             THEN [a EXCEPT !.score = @ + 5,
                            !.reasons = Append(@, "Ne udalos bezopasno poluchit otvet saita."),
                            !.unavailable = Append(@, r.error)]
             ELSE MergeFetchSuccess(a, r, host)
    ELSE [a EXCEPT !.unavailable = Append(@, w.payload)]

\* MergeScan counting a finished scan report as a risk signal
MergeScan_Scores(a, w) ==
    IF w.state = "ok"
    THEN LET r == w.payload
             a1 == IF r.result_url # None /\ r.result_url # ""
                   THEN [a EXCEPT !.intel = Append(@, r.detail \o " " \o r.result_url)]
                   ELSE [a EXCEPT !.intel = Append(@, r.detail)]
         IN  IF r.status = "error"
             THEN [a1 EXCEPT !.unavailable = Append(@, r.detail)]
             ELSE IF r.status = "ready"
             THEN [a1 EXCEPT !.score = @ + 10, !.reasons = Append(@, "urlscan.io: otchet gotov.")]
             ELSE a1
    ELSE [a EXCEPT !.unavailable = Append(@, w.payload)]

\* lines 170-178
MergeScan(a, w) ==
    IF w.state = "ok"
    THEN LET r == w.payload
             a1 == IF r.result_url # None /\ r.result_url # ""
                   THEN [a EXCEPT !.intel = Append(@, r.detail \o " " \o r.result_url)]
                   ELSE [a EXCEPT !.intel = Append(@, r.detail)]
         IN  IF r.status = "error"
             THEN [a1 EXCEPT !.unavailable = Append(@, r.detail)]
             ELSE a1
    ELSE [a EXCEPT !.unavailable = Append(@, w.payload)]

risk_level(score) ==
    IF score >= 70 THEN "HIGH" ELSE IF score >= 35 THEN "MEDIUM" ELSE "LOW"

\* Compose without the default reason of lines 185-186
Compose_NoDefault(n, a) ==
    LET score == Max(0, Min(100, a.score))
    IN  [normalized_url |-> n.normalized, scheme |-> n.scheme, host |-> n.host, path |-> n.path,
         display_host |-> n.display_host,
         risk_score |-> score,
         risk_level |-> risk_level(score),
         reasons |-> a.reasons,
         technical |-> a.technical, intel |-> a.intel, unavailable |-> a.unavailable]

\* Compose without the clamp of line 182
Compose_NoClamp(n, a) ==
    [normalized_url |-> n.normalized, scheme |-> n.scheme, host |-> n.host, path |-> n.path,
     display_host |-> n.display_host,
     risk_score |-> a.score,
     risk_level |-> risk_level(a.score),
     reasons |-> IF Len(a.reasons) = 0 THEN <<"Yavnyh priznakov riska ne naideno.">> ELSE a.reasons,
     technical |-> a.technical, intel |-> a.intel, unavailable |-> a.unavailable]

\* lines 182-201
Compose(n, a) ==
    LET score == Max(0, Min(100, a.score))
    IN  [normalized_url |-> n.normalized, scheme |-> n.scheme, host |-> n.host, path |-> n.path,
         display_host |-> n.display_host,
         risk_score |-> score,
         risk_level |-> risk_level(score),
         reasons |-> IF Len(a.reasons) = 0 THEN <<"Yavnyh priznakov riska ne naideno.">> ELSE a.reasons,
         technical |-> a.technical, intel |-> a.intel, unavailable |-> a.unavailable]

\* api_key: str | None
Keys == {None, "", "key"}

Inputs ==
    [url : RawUrls, vt_api_key : Keys, gsb_api_key : Keys,
     urlscan_api_key : Keys, deepcheck : BOOLEAN]

\* the deep scan asked for from MEDIUM on
NeedsScan_Medium(deepcheck, score) == deepcheck \/ score >= 35

\* line 164
NeedsScan(deepcheck, score) == deepcheck \/ score >= 70

Idle == [st |-> "idle"]
Running == [st |-> "running"]

\* the api_key argument of a lookup
KeyOf(t) ==
    CASE t = "gsb" -> inp.gsb_api_key
      [] t = "vt" -> inp.vt_api_key
      [] t = "scan" -> inp.urlscan_api_key

\* "if not api_key" taken as "if api_key is None": an empty key counts as a key
Configured_NoneOnly(t) ==
    IF t \in {"gsb", "vt", "scan"} THEN KeyOf(t) # None ELSE TRUE

\* "if not api_key": a lookup called with None or "" returns not_configured
\* before it awaits anything; the feed check and the fetch take no key.
Configured(t) ==
    IF t \in {"gsb", "vt", "scan"} THEN KeyOf(t) \notin {None, ""} ELSE TRUE

NotConfigured(t) ==
    CASE t = "gsb" -> GsbNotConfigured
      [] t = "vt" -> VtNotConfigured
      [] t = "scan" -> ScanNotConfigured

\* What the awaited operation may return when it does its work
Results(t) ==
    CASE t = "feeds" -> FeedResults
      [] t = "gsb" -> {GsbClean, GsbHit, GsbError, GsbTooLong}
      [] t = "vt" -> {VtClean, VtHit, VtError}
      [] t = "fetch" -> FetchResults(normalize_url(inp.url).normalized)
      [] t = "scan" -> {ScanReady, ScanQueued, ScanError}

\* What a keyed lookup has done to the network and to its cache when it is
\* suspended in its request (where a timeout or an exception finds it)
Attempted(t) ==
    CASE t = "gsb" -> {"gsb: cache get", "gsb: request"}
      [] t = "vt" -> {"vt: request"}
      [] t = "scan" -> {"scan: request"}
      [] OTHER -> {}

\* What a keyed lookup may have done when it returns r: safe browsing
\* answers from _cache (lines 111-113) or sends the request and stores the
\* result; reputation and urlscan have no cache.
Effects(t, r) ==
    CASE t = "gsb" ->
           IF r = GsbTooLong THEN {{}}
           ELSE {{"gsb: cache get"},
                 {"gsb: cache get", "gsb: request", "gsb: cache set"}}
      [] t = "vt" -> {{"vt: request"}}
      [] t = "scan" -> {{"scan: request"}}
      [] OTHER -> {{}}

\* an await without wait_for: no timer
Expires_Never(w, t) == FALSE

\* asyncio.wait_for(coro, timeout=timeout): the timer is armed while the
\* operation is suspended in its work
Expires(w, t) == w.st = "running" /\ Configured(t)

\* a run that repeats an earlier one (same arguments, every lookup with the
\* same outcome) and what the earlier one gave
NoPrior == [set |-> FALSE]
Prior(t, s, r) == [set |-> TRUE, tasks |-> t, scan |-> s, report |-> r]
Replays(t, w) == prior.set => w = prior.tasks[t]
ReplaysScan(w) == prior.set => w = prior.scan

\* analyze_url has not returned: there is no report
NoReport == [returned |-> FALSE]

\* safe_fetch has not returned: there is no FetchResult
NoFetchResult == [returned |-> FALSE]

AInit ==
    /\ pc = "start"
    /\ inp \in Inputs
    /\ tasks = [t \in Sources |-> Idle]
    /\ acc = Acc(0, <<>>, <<>>, <<>>, <<>>)
    /\ scan = Idle
    /\ report = NoReport
    /\ io = {}
    /\ prior = NoPrior

FIdle ==
    /\ fpc = "idle"
    /\ furl = Url("", "", "")
    /\ current = Url("", "", "")
    /\ step = 0
    /\ chain = <<>>
    /\ ips = {}
    /\ checked = <<>>
    /\ gets = <<>>
    /\ reads = <<>>
    /\ fres = NoFetchResult

\* Start with the operations awaited one after the other: only the feed check
\* is running when analyze_url first waits
Start_OneByOne ==
    /\ pc = "start"
    /\ LET n == normalize_url(inp.url)
       IN  IF n.raises
           THEN /\ pc' = "raised"
                /\ UNCHANGED <<tasks, acc>>
           ELSE LET h == evaluate_risk(n)
                IN  /\ pc' = "gather"
                    /\ acc' = Acc(h.score, h.reasons, <<>>, <<>>, <<>>)
                    /\ tasks' = [t \in Sources |-> IF t = "feeds" THEN Running ELSE Idle]
    /\ UNCHANGED <<inp, scan, report, io, prior, fvars, nvars, dvars, ivars, cvars, gvars, qvars, uvars, vvars, wvars>>

\* Start with the technical, intel and unavailable lists not created anew
\* (lists that outlive the call)
Start_SharedLists ==
    /\ pc = "start"
    /\ LET n == normalize_url(inp.url)
       IN  IF n.raises
           THEN /\ pc' = "raised"
                /\ UNCHANGED <<tasks, acc>>
           ELSE LET h == evaluate_risk(n)
                IN  /\ pc' = "gather"
                    /\ acc' = Acc(h.score, h.reasons, acc.technical, acc.intel, acc.unavailable)
                    /\ tasks' = [t \in Sources |-> Running]
    /\ UNCHANGED <<inp, scan, report, io, prior, fvars, nvars, dvars, ivars, cvars, gvars, qvars, uvars, vvars, wvars>>

\* lines 72-87, up to the suspension in gather: normalize (ValueError leaves
\* analyze_url), evaluate, create and schedule the four wrapped operations
Start ==
    /\ pc = "start"
    /\ LET n == normalize_url(inp.url)
       IN  IF n.raises
           THEN /\ pc' = "raised"
                /\ UNCHANGED <<tasks, acc>>
           ELSE LET h == evaluate_risk(n)
                IN  /\ pc' = "gather"
                    /\ acc' = Acc(h.score, h.reasons, <<>>, <<>>, <<>>)
                    /\ tasks' = [t \in Sources |-> Running]
    /\ UNCHANGED <<inp, scan, report, io, prior, fvars, nvars, dvars, ivars, cvars, gvars, qvars, uvars, vvars, wvars>>

\* an operation without its key returns at once
TaskImmediate(t) ==
    /\ pc = "gather"
    /\ tasks[t].st = "running"
    /\ ~Configured(t)
    /\ tasks' = [tasks EXCEPT ![t] = with_timeout(Returns(NotConfigured(t)), Label(t))]
    /\ UNCHANGED <<pc, inp, acc, scan, report, io, prior, fvars, nvars, dvars, ivars, cvars, gvars, qvars, uvars, vvars, wvars>>

TaskReturn(t) ==
    /\ pc = "gather"
    /\ tasks[t].st = "running"
    /\ Configured(t)
    /\ \E r \in Results(t) : \E ev \in Effects(t, r) :
         /\ Replays(t, with_timeout(Returns(r), Label(t)))
         /\ tasks' = [tasks EXCEPT ![t] = with_timeout(Returns(r), Label(t))]
         /\ io' = io \cup ev
    /\ UNCHANGED <<pc, inp, acc, scan, report, prior, fvars, nvars, dvars, ivars, cvars, gvars, qvars, uvars, vvars, wvars>>

TaskRaise(t) ==
    /\ pc = "gather"
    /\ tasks[t].st = "running"
    /\ Configured(t)
    /\ Replays(t, with_timeout(RaisesExc, Label(t)))
    /\ tasks' = [tasks EXCEPT ![t] = with_timeout(RaisesExc, Label(t))]
    /\ io' = io \cup Attempted(t)
    /\ UNCHANGED <<pc, inp, acc, scan, report, prior, fvars, nvars, dvars, ivars, cvars, gvars, qvars, uvars, vvars, wvars>>

TaskTimeout(t) ==
    /\ pc = "gather"
    /\ Expires(tasks[t], t)
    /\ Replays(t, with_timeout(TimesOut, Label(t)))
    /\ tasks' = [tasks EXCEPT ![t] = with_timeout(TimesOut, Label(t))]
    /\ io' = io \cup Attempted(t)
    /\ UNCHANGED <<pc, inp, acc, scan, report, prior, fvars, nvars, dvars, ivars, cvars, gvars, qvars, uvars, vvars, wvars>>

\* Gathered with the fetch, when it is there, merged before the lookups
Gathered_FetchFirst ==
    /\ pc = "gather"
    /\ \A t \in Sources : tasks[t].st = "done"
    /\ IF \E t \in Sources : tasks[t].state = "raise"
       THEN /\ pc' = "raised"
            /\ UNCHANGED <<acc, scan, report>>
       ELSE LET n == normalize_url(inp.url)
                a == MergeVt(MergeGsb(MergeFeeds(MergeFetch(acc, tasks["fetch"], n.host),
                                                 tasks["feeds"]), tasks["gsb"]), tasks["vt"])
            IN  IF NeedsScan(inp.deepcheck, a.score)
                THEN /\ pc' = "scan"
                     /\ acc' = a
                     /\ scan' = Running
                     /\ UNCHANGED report
                ELSE LET a1 == [a EXCEPT !.intel = Append(@, "urlscan.io: propushcheno (zapusti /deepcheck dlya polnogo skana).")]
                     IN  /\ pc' = "returned"
                         /\ acc' = a1
                         /\ report' = Compose(n, a1)
                         /\ UNCHANGED scan
    /\ UNCHANGED <<inp, tasks, io, prior, fvars, nvars, dvars, ivars, cvars, gvars, qvars, uvars, vvars, wvars>>

\* lines 87-164 and, when no deep scan is due, 180-201: gather hands back the
\* four results (or the first exception one of its awaitables let through),
\* which are merged in the order feeds, gsb, vt, fetch
Gathered ==
    /\ pc = "gather"
    /\ \A t \in Sources : tasks[t].st = "done"
    /\ IF \E t \in Sources : tasks[t].state = "raise"
       THEN /\ pc' = "raised"
            /\ UNCHANGED <<acc, scan, report>>
       ELSE LET n == normalize_url(inp.url)
                a == MergeFetch(MergeVt(MergeGsb(MergeFeeds(acc, tasks["feeds"]),
                                                 tasks["gsb"]), tasks["vt"]),
                                tasks["fetch"], n.host)
            IN  IF NeedsScan(inp.deepcheck, a.score)
                THEN /\ pc' = "scan"
                     /\ acc' = a
                     /\ scan' = Running
                     /\ UNCHANGED report
                ELSE LET a1 == [a EXCEPT !.intel = Append(@, "urlscan.io: propushcheno (zapusti /deepcheck dlya polnogo skana).")]
                     IN  /\ pc' = "returned"
                         /\ acc' = a1
                         /\ report' = Compose(n, a1)
                         /\ UNCHANGED scan
    /\ UNCHANGED <<inp, tasks, io, prior, fvars, nvars, dvars, ivars, cvars, gvars, qvars, uvars, vvars, wvars>>

\* lines 165-201, from the result of the wrapped deep scan to the return
Scanned(w, ev) ==
    /\ ReplaysScan(w)
    /\ scan' = w
    /\ io' = io \cup ev
    /\ IF w.state = "raise"
       THEN /\ pc' = "raised"
            /\ UNCHANGED <<acc, report>>
       ELSE LET a == MergeScan(acc, w)
            IN  /\ pc' = "returned"
                /\ acc' = a
                /\ report' = Compose(normalize_url(inp.url), a)
    /\ UNCHANGED <<inp, tasks, prior, fvars, nvars, dvars, ivars, cvars, gvars, qvars, uvars, vvars, wvars>>

ScanImmediate ==
    /\ pc = "scan"
    /\ ~Configured("scan")
    /\ Scanned(with_timeout(Returns(NotConfigured("scan")), Label("scan")), {})

ScanReturn ==
    /\ pc = "scan"
    /\ Configured("scan")
    /\ \E r \in Results("scan") : \E ev \in Effects("scan", r) :
         Scanned(with_timeout(Returns(r), Label("scan")), ev)

ScanRaise ==
    /\ pc = "scan"
    /\ Configured("scan")
    /\ Scanned(with_timeout(RaisesExc, Label("scan")), Attempted("scan"))

ScanTimeout ==
    /\ pc = "scan"
    /\ Expires(scan, "scan")
    /\ Scanned(with_timeout(TimesOut, Label("scan")), Attempted("scan"))

ANext ==
    \/ Start
    \/ \E t \in Sources : TaskImmediate(t)
    \/ \E t \in Sources : TaskReturn(t)
    \/ \E t \in Sources : TaskRaise(t)
    \/ \E t \in Sources : TaskTimeout(t)
    \/ Gathered
    \/ ScanImmediate
    \/ ScanReturn
    \/ ScanRaise
    \/ ScanTimeout

\* normalize_url at rest
NIdle ==
    /\ nin = None
    /\ nout = [st |-> "none"]

\* is_forbidden_ip at rest
IIdle == iin = None /\ iout = [st |-> "none"]

\* the callers of the two caches
Callers == {"a", "b"}

\* no concurrent _load_feed calls
CIdle ==
    /\ cpc = [c \in Callers |-> "off"]
    /\ cloc = [c \in Callers |-> [now |-> 0, cached_at |-> [present |-> FALSE, at |-> 0]]]
    /\ cres = [c \in Callers |-> [via |-> "none", data |-> [present |-> FALSE]]]

\* safe browsing at rest
GIdle ==
    /\ gcache = <<>>
    /\ gpc = [c \in Callers |-> "off"]
    /\ gloc = [c \in Callers |-> [key |-> "", attempt |-> 0, first |-> ""]]
    /\ gres = [c \in Callers |-> [status |-> "none", detail |-> ""]]
    /\ gsent = [c \in Callers |-> 0]

\* the threat feeds at rest
\* check_url of threat_feeds has not been called
NoQuery == [url |-> Url("", "", ""), host |-> ""]
QIdle == lin = NoQuery /\ lout = <<>>

\* scan_url at rest
NoScan == [status |-> "none", detail |-> "", result_url |-> None]
UIdle == upc = "off" /\ uattempt = 0 /\ usent = <<>> /\ ures = NoScan

\* check_reputation at rest
NoReputation == [status |-> "none", detail |-> ""]
VIdle == vpc = "off" /\ vsent = 0 /\ vres = NoReputation

\* no _cache_set on its own
WIdle == wkey = "" /\ wbefore = <<>> /\ wn = 0

DIdle ==
    /\ now = 0
    /\ mem = [present |-> FALSE]
    /\ disk = [exists |-> FALSE]
    /\ meta = [present |-> FALSE, at |-> 0]
    /\ lpc = "off"
    /\ lres = [via |-> "none", data |-> [present |-> FALSE]]

Init == AInit /\ FIdle /\ NIdle /\ DIdle /\ IIdle /\ CIdle /\ GIdle /\ QIdle /\ UIdle /\ VIdle /\ WIdle

Next == ANext

Spec == Init /\ [][Next]_vars

\* The fan-out and the deep scan under the scheduling the event loop gives:
\* a ready continuation runs and an armed timer fires; nothing makes a
\* DNS resolution or an HTTP request complete.
LiveSpec ==
    /\ Init /\ [][Next]_vars
    /\ WF_vars(Start)
    /\ \A t \in Sources : WF_vars(TaskImmediate(t))
    /\ \A t \in Sources : WF_vars(TaskTimeout(t))
    /\ WF_vars(Gathered)
    /\ WF_vars(ScanImmediate)
    /\ WF_vars(ScanTimeout)

(***************************************************************************)
(* Properties of analyze_url                                               *)
(***************************************************************************)
Accepted == ~normalize_url(inp.url).raises
Returned == pc = "returned"
Ok(t) == tasks[t].st = "done" /\ tasks[t].state = "ok"
Failed(t) == tasks[t].st = "done" /\ tasks[t].state \in {"timeout", "error"}
TimedOut(t) == tasks[t].st = "done" /\ tasks[t].state = "timeout"
Has(seq, x) == x \in Range(seq)

\* C1: for an accepted URL analyze_url never ends with an exception, whatever
\* the five operations do (return, return an error status, raise, time out),
\* and it ends only by returning a Report; a rejected URL is the only way to
\* an exception, and then no lookup, fetch or scan was started.
C1_OnlyNormalizationRaises ==
    /\ pc = "raised" => /\ ~Accepted
                        /\ \A t \in Sources : tasks[t] = Idle
                        /\ scan = Idle
    /\ Accepted => (Returned \/ ENABLED Next)
    /\ (~Accepted /\ pc # "start") => pc = "raised"

C1_Witness ==
    /\ Returned
    /\ tasks["feeds"].state = "error"
    /\ tasks["gsb"].state = "timeout"
    /\ Ok("vt") /\ tasks["vt"].payload.status = "error"
    /\ tasks["fetch"].state = "error"
    /\ scan.st = "done" /\ scan.state = "error"

\* what a fetch result adds to the score (blocked 25, transport error 5,
\* otherwise headers, redirects and content findings)
FetchAdds(r, host) ==
    IF r.blocked_reason # None THEN 25
    ELSE IF r.error # None THEN 5
    ELSE Min(25, 5 * Len(missing_security_headers(r.headers)))
         + redirect_summary(r.redirect_chain, r.final_url).score
         + (IF r.body_text.present /\ ~r.body_text.empty
            THEN SumScores(analyze_html(r.body_text, host)) ELSE 0)

Applied(t) ==
    LET r == tasks[t].payload
    IN  CASE t = "feeds" ->
               IF Len(r) > 0
               THEN /\ Has(report.reasons, "Sovpadenie v publichnyh bazah ugroz.")
                    /\ \A i \in 1..Len(r) : Has(report.intel, r[i].source \o ": " \o r[i].detail)
               ELSE Has(report.intel, "Publichnye bazy: sovpadenii net.")
          [] t = "gsb" ->
               /\ Has(report.intel, r.detail)
               /\ r.status = "hit" => /\ report.risk_score >= 80
                                      /\ Has(report.reasons, "Google Safe Browsing: obnaruzheny ugrozy.")
               /\ r.status = "error" => Has(report.unavailable, r.detail)
          [] t = "vt" ->
               /\ Has(report.intel, r.detail)
               /\ r.status = "hit" => /\ report.risk_score >= 70
                                      /\ Has(report.reasons, "VirusTotal: obnaruzheny srabatyvaniya.")
               /\ r.status = "error" => Has(report.unavailable, r.detail)
          [] t = "fetch" ->
               IF r.blocked_reason # None
               THEN /\ Has(report.reasons, r.blocked_reason)
                    /\ Has(report.technical, "Zapros zablokirovan: " \o r.blocked_reason)
               ELSE IF r.error # None
               THEN /\ Has(report.reasons, "Ne udalos bezopasno poluchit otvet saita.")
                    /\ Has(report.unavailable, r.error)
               ELSE /\ Has(report.technical, "HTTP status: " \o r.status)
                    /\ Has(report.technical, "Finalnyi URL: " \o UrlStr(r.final_url))

\* the additive score rules of the operations that came back
AddedByOk ==
    LET n == normalize_url(inp.url)
    IN  evaluate_risk(n).score
        + (IF Ok("feeds") /\ Len(tasks["feeds"].payload) > 0 THEN 60 ELSE 0)
        + (IF Ok("fetch") THEN FetchAdds(tasks["fetch"].payload, n.host) ELSE 0)

\* C2: in a returned Report every fan-out operation that came back within
\* its timeout has its intel line, reasons and score rule applied, whatever
\* the others did, and every one that timed out or raised has exactly one
\* entry in unavailable.
C2_FailureIsolated ==
    Returned =>
        /\ \A t \in Sources : Ok(t) => Applied(t)
        /\ \A t \in Sources : Failed(t) => Count(report.unavailable, tasks[t].payload) = 1
        /\ report.risk_score >= Min(100, AddedByOk)

C2_Witness ==
    /\ Returned
    /\ TimedOut("feeds")
    /\ tasks["vt"].state = "error"
    /\ Ok("gsb") /\ tasks["gsb"].payload.status = "hit"
    /\ Ok("fetch") /\ tasks["fetch"].payload.status = "404"

\* C3: when all four fan-out operations time out, the Report lists the four
\* sources in unavailable, once each, and its score is the heuristic score
\* clamped to [0,100].
C3_AllTimedOut ==
    (Returned /\ \A t \in Sources : TimedOut(t)) =>
        /\ \A t \in Sources : Count(report.unavailable, Label(t) \o ": taimaut.") = 1
        /\ Len(report.unavailable) >= 4
        /\ SubSeq(report.unavailable, 1, 4) =
               <<"Publichnye bazy: taimaut.", "Google Safe Browsing: taimaut.",
                 "VirusTotal: taimaut.", "HTTP zapros: taimaut.">>
        /\ report.risk_score = Max(0, Min(100, evaluate_risk(normalize_url(inp.url)).score))

C3_Witness ==
    /\ Returned
    /\ \A t \in Sources : TimedOut(t)
    /\ report.risk_score = 75
    /\ Len(report.unavailable) = 5

\* C4: once the fan-out is started analyze_url returns a Report, under the
\* fairness of LiveSpec alone (timers fire; no request need ever complete).
C4_Terminates == (pc = "gather") ~> Returned

C4_Witness ==
    /\ Returned
    /\ \A t \in Sources : TimedOut(t)
    /\ scan.st = "done" /\ scan.state = "timeout"

\* C9: the returned risk_score lies in 0..100 and risk_level is LOW exactly
\* below 35, MEDIUM exactly from 35 to 69, HIGH exactly from 70.
C9_ScoreAndLevel ==
    Returned =>
        /\ report.risk_score \in 0..100
        /\ report.risk_level \in {"LOW", "MEDIUM", "HIGH"}
        /\ report.risk_level = "LOW" <=> report.risk_score < 35
        /\ report.risk_level = "MEDIUM" <=> (35 <= report.risk_score /\ report.risk_score <= 69)
        /\ report.risk_level = "HIGH" <=> report.risk_score >= 70

C9_Witness == Returned /\ acc.score > 100 /\ report.risk_score = 100

\* C10: a safe-browsing result with status hit gives a Report with score at
\* least 80, level HIGH and the safe-browsing reason, whatever the URL and
\* the other operations.
C10_GsbHitIsHigh ==
    (Returned /\ Ok("gsb") /\ tasks["gsb"].payload.status = "hit") =>
        /\ report.risk_score >= 80
        /\ report.risk_level = "HIGH"
        /\ Has(report.reasons, "Google Safe Browsing: obnaruzheny ugrozy.")

C10_Witness ==
    /\ Returned /\ Ok("gsb") /\ tasks["gsb"].payload.status = "hit"
    /\ inp.url = RawPlain
    /\ Ok("feeds") /\ tasks["feeds"].payload = <<>>
    /\ TimedOut("fetch")
    /\ Ok("vt") /\ tasks["vt"].payload.status = "clean"
    /\ report.risk_score = 80

(***************************************************************************)
(* The score rules, restated step by step from the outcomes of the tasks   *)
(***************************************************************************)
Heuristic == evaluate_risk(normalize_url(inp.url))
FeedHit == Ok("feeds") /\ Len(tasks["feeds"].payload) > 0
GsbIs(status) == Ok("gsb") /\ tasks["gsb"].payload.status = status
VtIs(status) == Ok("vt") /\ tasks["vt"].payload.status = status
ScanDone == scan.st = "done"
ScanIs(status) == ScanDone /\ scan.state = "ok" /\ scan.payload.status = status
FetchOkay == Ok("fetch") /\ tasks["fetch"].payload.blocked_reason = None
                         /\ tasks["fetch"].payload.error = None
FetchPart == IF Ok("fetch") THEN FetchAdds(tasks["fetch"].payload, normalize_url(inp.url).host) ELSE 0
Clamp(score) == Max(0, Min(100, score))

ScoreAfterFeeds == Heuristic.score + (IF FeedHit THEN 60 ELSE 0)
ScoreAfterGsb == IF GsbIs("hit") THEN Max(ScoreAfterFeeds, 80) ELSE ScoreAfterFeeds

\* C11: a reputation hit raises the running score to at least 70 and never
\* lowers it (score = max(score, 70)), so the Report is HIGH and carries the
\* reputation reason; a reputation error puts its detail in unavailable, once,
\* and leaves the running score as it was.
C11_VtHitIsHigh ==
    (Returned /\ Ok("vt")) =>
        /\ VtIs("hit") => /\ acc.score = Max(ScoreAfterGsb, 70) + FetchPart
                          /\ report.risk_score >= 70
                          /\ report.risk_level = "HIGH"
                          /\ Count(report.reasons, "VirusTotal: obnaruzheny srabatyvaniya.") = 1
        /\ VtIs("error") => /\ acc.score = ScoreAfterGsb + FetchPart
                            /\ Count(report.unavailable, tasks["vt"].payload.detail) = 1
                            /\ ~Has(report.reasons, "VirusTotal: obnaruzheny srabatyvaniya.")

\* a hit on top of a running score above 70 (feeds 60 + heuristic 75)
C11_Witness ==
    /\ Returned /\ VtIs("hit")
    /\ FeedHit /\ inp.url = RawDeep
    /\ ~GsbIs("hit")
    /\ TimedOut("fetch")
    /\ acc.score = 135

ScoreAfterVt == IF VtIs("hit") THEN Max(ScoreAfterGsb, 70) ELSE ScoreAfterGsb

\* the rules that follow the feed rule, applied to a score s
ScoreFrom(s) ==
    LET g == IF GsbIs("hit") THEN Max(s, 80) ELSE s
        v == IF VtIs("hit") THEN Max(g, 70) ELSE g
    IN  v + FetchPart

\* what check_url returns once FEEDS lists a second feed
TwoFindings ==
    <<FeedFinding("URLhaus", "url", "sovpadenie URL"),
      FeedFinding("OpenPhish", "domain", "sovpadenie domena")>>

FeedLine(f) == f.source \o ": " \o f.detail

\* C12: one finding or more adds 60 once, the threat-feed reason once and one
\* intel line for each finding; no finding leaves the score alone and adds the
\* single 'no matches' intel line.
C12_FeedHitAddsOnce ==
    /\ (Returned /\ Ok("feeds")) =>
         LET hits == tasks["feeds"].payload
         IN  IF Len(hits) > 0
             THEN /\ acc.score = ScoreFrom(Heuristic.score + 60)
                  /\ Count(report.reasons, "Sovpadenie v publichnyh bazah ugroz.") = 1
                  /\ SubSeq(report.intel, 1, Len(hits)) = [i \in 1..Len(hits) |-> FeedLine(hits[i])]
                  /\ ~Has(report.intel, "Publichnye bazy: sovpadenii net.")
             ELSE /\ acc.score = ScoreFrom(Heuristic.score)
                  /\ ~Has(report.reasons, "Sovpadenie v publichnyh bazah ugroz.")
                  /\ report.intel[1] = "Publichnye bazy: sovpadenii net."
                  /\ Count(report.intel, "Publichnye bazy: sovpadenii net.") = 1
    /\ pc = "gather" =>
         LET a == MergeFeeds(acc, Wrapped("ok", TwoFindings))
         IN  /\ a.score = acc.score + 60
             /\ a.reasons = Append(acc.reasons, "Sovpadenie v publichnyh bazah ugroz.")
             /\ a.intel = acc.intel \o <<FeedLine(TwoFindings[1]), FeedLine(TwoFindings[2])>>

C12_Witness ==
    /\ Returned /\ FeedHit
    /\ tasks["feeds"].payload[1].match_type = "domain"
    /\ GsbIs("clean") /\ VtIs("clean") /\ FetchOkay
    /\ acc.score = Heuristic.score + 60 + FetchPart

\* C13 as claimed: the deep scan runs only if deepcheck was asked for or the
\* merged score exceeds 70, and otherwise intel records the skip.
C13_AsClaimed ==
    /\ (pc = "scan" \/ ScanDone) => (inp.deepcheck \/ acc.score > 70)
    /\ (Returned /\ ~(inp.deepcheck \/ acc.score > 70)) =>
          /\ scan = Idle
          /\ Has(report.intel, "urlscan.io: propushcheno (zapusti /deepcheck dlya polnogo skana).")

\* C13: the deep scan runs only if deepcheck was asked for or the score, after
\* the four results have been merged, is at least 70; otherwise no deep-scan
\* request is made and intel records the skip.
C13_DeepScanGate ==
    /\ (pc = "scan" \/ ScanDone) =>
          /\ inp.deepcheck \/ acc.score >= 70
          /\ \A t \in Sources : tasks[t].st = "done"
    /\ (Returned /\ ~(inp.deepcheck \/ acc.score >= 70)) =>
          /\ scan = Idle
          /\ "scan: request" \notin io
          /\ Count(report.intel, "urlscan.io: propushcheno (zapusti /deepcheck dlya polnogo skana).") = 1
    /\ (Returned /\ (inp.deepcheck \/ acc.score >= 70)) =>
          /\ ScanDone
          /\ ~Has(report.intel, "urlscan.io: propushcheno (zapusti /deepcheck dlya polnogo skana).")

\* a scan at exactly 70 without deepcheck
C13_Witness ==
    /\ Returned /\ ~inp.deepcheck /\ acc.score = 70
    /\ ScanIs("ready")
    /\ "scan: request" \in io

\* the four fan-out results merged in the order of the code
Merged ==
    MergeFetch(MergeVt(MergeGsb(MergeFeeds(Acc(Heuristic.score, Heuristic.reasons, <<>>, <<>>, <<>>),
                                           tasks["feeds"]), tasks["gsb"]), tasks["vt"]),
               tasks["fetch"], normalize_url(inp.url).host)

\* C14: score, level and reasons of the Report are those of the merged
\* heuristic, feed, safe-browsing, reputation and fetch outcomes, whatever the
\* deep scan did (ready, queued, error, raised, timed out, not configured) or
\* when it was skipped; the deep scan shows in intel and unavailable only.
C14_ScanIsInformational ==
    Returned =>
        /\ report.risk_score = Clamp(Merged.score)
        /\ report.risk_level = risk_level(Clamp(Merged.score))
        /\ report.reasons = (IF Merged.reasons = <<>>
                             THEN <<"Yavnyh priznakov riska ne naideno.">> ELSE Merged.reasons)
        /\ report.technical = Merged.technical
        /\ SubSeq(report.intel, 1, Len(Merged.intel)) = Merged.intel
        /\ SubSeq(report.unavailable, 1, Len(Merged.unavailable)) = Merged.unavailable

C14_Witness ==
    /\ Returned /\ ScanIs("ready")
    /\ inp.deepcheck /\ inp.url = RawPlain
    /\ report.risk_score = 0
    /\ report.reasons = <<"Yavnyh priznakov riska ne naideno.">>

Keyed == {"gsb", "vt", "scan"}
Missing(t) == KeyOf(t) \in {None, ""}
TaskOf(t) == IF t = "scan" THEN scan ELSE tasks[t]

\* the network and cache events of a lookup
EventsOf(t) ==
    CASE t = "gsb" -> {"gsb: cache get", "gsb: request", "gsb: cache set"}
      [] t = "vt" -> {"vt: request"}
      [] t = "scan" -> {"scan: request"}

\* the texts a source can leave in unavailable
UnavailableOf(t) ==
    {Label(t) \o ": taimaut.", Label(t) \o ": oshibka."}
    \cup {r.detail : r \in {x \in Results(t) : x.status = "error"}}

\* the score without the rule of the lookup t
ScoreWithout(t) ==
    CASE t = "gsb" -> (IF VtIs("hit") THEN Max(ScoreAfterFeeds, 70) ELSE ScoreAfterFeeds) + FetchPart
      [] t = "vt" -> ScoreAfterGsb + FetchPart
      [] t = "scan" -> ScoreAfterVt + FetchPart

\* C15: a lookup whose API key is None or empty ends with not_configured and
\* nothing else (no timeout, no exception), without a network request and
\* without a read or write of its cache; in the Report its detail is in intel,
\* nothing of it is in unavailable and the score is what the other sources
\* make it.
C15_MissingKey ==
    \A t \in Keyed :
        (Missing(t) /\ pc \in {"gather", "scan", "returned"}) =>
            /\ TaskOf(t).st = "done" => TaskOf(t) = Wrapped("ok", NotConfigured(t))
            /\ io \cap EventsOf(t) = {}
            /\ (Returned /\ TaskOf(t).st = "done") =>
                  /\ Count(report.intel, NotConfigured(t).detail) = 1
                  /\ \A x \in UnavailableOf(t) \cup {NotConfigured(t).detail} :
                        ~Has(report.unavailable, x)
                  /\ acc.score = ScoreWithout(t)

C15_Witness ==
    /\ Returned
    /\ inp.gsb_api_key = "" /\ inp.vt_api_key = None /\ inp.urlscan_api_key = ""
    /\ ScanIs("not_configured")
    /\ FeedHit /\ FetchOkay
    /\ io = {}

\* the entry the outcome w of the source t puts in unavailable, if any
Unavail(t, w) ==
    IF w.state \in {"timeout", "error"} THEN <<w.payload>>
    ELSE CASE t = "feeds" -> <<>>
           [] t = "fetch" -> IF w.payload.blocked_reason # None THEN <<>>
                             ELSE IF w.payload.error # None THEN <<w.payload.error>>
                             ELSE <<>>
           [] OTHER -> IF w.payload.status = "error" THEN <<w.payload.detail>> ELSE <<>>

\* C16: unavailable holds one entry for each source that timed out at the
\* aggregator, raised, or returned an error result (for the fetch: a result
\* with error set), and nothing else: a source that is not configured, clean,
\* a hit, a blocked fetch or a skipped scan leaves no entry.
C16_UnavailableExactly ==
    Returned =>
        report.unavailable =
            Unavail("feeds", tasks["feeds"]) \o Unavail("gsb", tasks["gsb"])
            \o Unavail("vt", tasks["vt"]) \o Unavail("fetch", tasks["fetch"])
            \o (IF ScanDone THEN Unavail("scan", scan) ELSE <<>>)

C16_Witness ==
    /\ Returned
    /\ TimedOut("feeds")
    /\ GsbIs("not_configured")
    /\ VtIs("hit")
    /\ Ok("fetch") /\ tasks["fetch"].payload.blocked_reason # None
    /\ ScanIs("error")
    /\ report.unavailable = <<"Publichnye bazy: taimaut.", "urlscan.io: taimaut.">>

\* the redirect rule as the claim words it
RedirectHosts(r) == {r.redirect_chain[i].host : i \in 1..Len(r.redirect_chain)} \cup {r.final_url.host}
DifferentHosts(r) == Len(r.redirect_chain) > 0 /\ Cardinality(RedirectHosts(r)) > 1
SeveralRedirects(r) == ~DifferentHosts(r) /\ Len(r.redirect_chain) >= 2
RedirectAdds(r) == IF DifferentHosts(r) THEN 10 ELSE IF SeveralRedirects(r) THEN 5 ELSE 0

\* what the headers and the content of a fetched page add
PageAdds(r, host) ==
    Min(25, 5 * Len(missing_security_headers(r.headers)))
    + (IF r.body_text.present /\ ~r.body_text.empty THEN SumScores(analyze_html(r.body_text, host)) ELSE 0)

\* C18: for a successful fetch the redirects add 10 and the 'different hosts'
\* reason when chain and final URL span more than one host, else 5 and the
\* 'several redirects' reason when the chain has two redirects or more, else
\* nothing; never two of these.
C18_RedirectContribution ==
    (Returned /\ FetchOkay) =>
        LET r == tasks["fetch"].payload
        IN  /\ acc.score = ScoreAfterVt + PageAdds(r, normalize_url(inp.url).host) + RedirectAdds(r)
            /\ Count(report.reasons, "Redirekty na raznye domeny.") = (IF DifferentHosts(r) THEN 1 ELSE 0)
            /\ Count(report.reasons, "Neskolko redirektov podryad.") = (IF SeveralRedirects(r) THEN 1 ELSE 0)
            /\ ~(DifferentHosts(r) /\ SeveralRedirects(r))

\* one redirect, to another host
C18_Witness ==
    /\ Returned /\ FetchOkay
    /\ Len(tasks["fetch"].payload.redirect_chain) = 1
    /\ tasks["fetch"].payload.final_url.host = "landing.example"
    /\ Has(report.reasons, "Redirekty na raznye domeny.")

(***************************************************************************)
(* safe_fetch (src/checks/http_fetch.py)                                   *)
(***************************************************************************)
MAX_REDIRECTS == 5
MAX_BODY_BYTES == 200000

\* An address: its text, its version, and its groups (4 octets, or 8 groups
\* of 16 bits).
Addr(text, v, g) == [text |-> text, v |-> v, g |-> g]
Net(v, g, prefix) == [v |-> v, g |-> g, prefix |-> prefix]

A_Public == Addr("93.184.216.34", 4, <<93, 184, 216, 34>>)
A_Public2 == Addr("1.1.1.1", 4, <<1, 1, 1, 1>>)
A_Ten == Addr("10.0.0.5", 4, <<10, 0, 0, 5>>)
A_Lan == Addr("192.168.1.10", 4, <<192, 168, 1, 10>>)
A_Loop == Addr("127.0.0.1", 4, <<127, 0, 0, 1>>)
A_Loop6 == Addr("::1", 6, <<0, 0, 0, 0, 0, 0, 0, 1>>)

\* "8.8.8.8"; "::ffff:127.0.0.1", an IPv6 address; "fe80::1%eth0", whose
\* scope takes no part in "ip in net"
A_Dns == Addr("8.8.8.8", 4, <<8, 8, 8, 8>>)
A_Mapped == Addr("::ffff:127.0.0.1", 6, <<0, 0, 0, 0, 0, 65535, 32512, 1>>)
A_Scoped == Addr("fe80::1%eth0", 6, <<65152, 0, 0, 0, 0, 0, 0, 1>>)

HexDigits == <<"0", "1", "2", "3", "4", "5", "6", "7", "8", "9", "a", "b", "c", "d", "e", "f">>

RECURSIVE Hex(_)
Hex(n) == IF n < 16 THEN HexDigits[n + 1] ELSE Hex(n \div 16) \o HexDigits[(n % 16) + 1]

\* dotted quad, and the eight groups written out
V4(a, b, c, d) ==
    Addr(ToString(a) \o "." \o ToString(b) \o "." \o ToString(c) \o "." \o ToString(d), 4, <<a, b, c, d>>)
V6(g) ==
    Addr(Hex(g[1]) \o ":" \o Hex(g[2]) \o ":" \o Hex(g[3]) \o ":" \o Hex(g[4]) \o ":"
         \o Hex(g[5]) \o ":" \o Hex(g[6]) \o ":" \o Hex(g[7]) \o ":" \o Hex(g[8]), 6, g)

\* octets and groups on both sides of every edge of FORBIDDEN_NETS
FirstOctets == {8, 9, 10, 11, 126, 127, 128, 169, 172, 192}
SecondOctets == {0, 15, 16, 31, 32, 167, 168, 169, 253, 254, 255}
LastOctets == {0, 1, 255}
FirstGroups == {0, 8193, 64511, 64512, 65023, 65024, 65151, 65152, 65215, 65216, 65535}
LastGroups == {0, 1, 2, 65535}

Addresses ==
    {A_Public, A_Public2, A_Ten, A_Lan, A_Loop, A_Loop6, A_Dns, A_Mapped, A_Scoped}
    \cup {V4(a, b, 0, d) : a \in FirstOctets, b \in SecondOctets, d \in LastOctets}
    \cup {V6(<<g, m, 0, 0, 0, 0, 0, l>>) : g \in FirstGroups, m \in {0, 65535}, l \in LastGroups}

FORBIDDEN_NETS ==
    <<Net(4, <<127, 0, 0, 0>>, 8),
      Net(4, <<10, 0, 0, 0>>, 8),
      Net(4, <<172, 16, 0, 0>>, 12),
      Net(4, <<192, 168, 0, 0>>, 16),
      Net(4, <<169, 254, 0, 0>>, 16),
      Net(6, <<0, 0, 0, 0, 0, 0, 0, 1>>, 128),
      Net(6, <<64512, 0, 0, 0, 0, 0, 0, 0>>, 7),
      Net(6, <<65152, 0, 0, 0, 0, 0, 0, 0>>, 10)>>

RECURSIVE Pow2(_)
Pow2(k) == IF k = 0 THEN 1 ELSE 2 * Pow2(k - 1)

\* ip in net: same version and the same leading prefix bits
InNet(ip, net) ==
    /\ ip.v = net.v
    /\ LET w == IF ip.v = 4 THEN 8 ELSE 16
       IN  \A i \in 1..Len(ip.g) :
             LET k == Max(0, Min(w, net.prefix - (i - 1) * w))
             IN  ip.g[i] \div Pow2(w - k) = net.g[i] \div Pow2(w - k)

\* ipaddress.ip_address(text): the address, when the text is one
ParsesAsIp(text) == \E a \in Addresses : a.text = text
ip_address(text) == CHOOSE a \in Addresses : a.text = text

\* is_forbidden_ip without the IPv6 networks
is_forbidden_ip_V4Only(ip_str) ==
    IF ~ParsesAsIp(ip_str) THEN FALSE
    ELSE \E i \in 1..5 : InNet(ip_address(ip_str), FORBIDDEN_NETS[i])

is_forbidden_ip(ip_str) ==
    IF ~ParsesAsIp(ip_str) THEN FALSE
    ELSE \E i \in 1..Len(FORBIDDEN_NETS) : InNet(ip_address(ip_str), FORBIDDEN_NETS[i])

\* What loop.getaddrinfo may do for a name: return addresses, raise OSError
\* (unknown name, no answer), or raise UnicodeError, which is no OSError
\* (the idna codec rejects an empty or over-long label).  A name may have
\* several possible answers: each resolution gets one of them.
Answer(addrs) == [kind |-> "addrs", addrs |-> addrs]
OsError == [kind |-> "oserror"]
UnicodeErr == [kind |-> "unicodeerror"]

getaddrinfo(host) ==
    CASE host = "pub.example" -> {Answer({A_Public.text})}
      [] host = "intra.example" -> {Answer({A_Ten.text})}
      [] host = "mixed.example" -> {Answer({A_Public2.text, A_Lan.text})}
      [] host = "rebind.example" -> {Answer({A_Public.text}), Answer({A_Loop.text})}
      [] host = "nx.example" -> {OsError}
      [] host = "a..b.example" -> {UnicodeErr}
      [] OTHER -> {OsError}

Hosts == {"pub.example", "intra.example", "mixed.example", "rebind.example",
          "nx.example", "a..b.example", "127.0.0.1", "::1", ""}

\* _resolve_host for one outcome of getaddrinfo: the addresses, or raises
resolve_host(host, dns) ==
    IF ParsesAsIp(host) THEN [raises |-> FALSE, ips |-> {host}]
    ELSE IF dns.kind = "oserror" THEN [raises |-> FALSE, ips |-> {}]
    ELSE IF dns.kind = "unicodeerror" THEN [raises |-> TRUE, ips |-> {}]
    ELSE [raises |-> FALSE, ips |-> dns.addrs]

\* _host_is_allowed with "any address public" for "no address forbidden"
host_is_allowed_AnyPublic(host, dns) ==
    IF host = "" THEN [raises |-> FALSE, allowed |-> FALSE, reason |-> "URL bez domena.", ips |-> {}]
    ELSE LET r == resolve_host(host, dns)
         IN  IF r.raises THEN [raises |-> TRUE, allowed |-> FALSE, reason |-> None, ips |-> {}]
             ELSE IF r.ips = {}
             THEN [raises |-> FALSE, allowed |-> FALSE,
                   reason |-> "DNS ne otvechaet ili domen ne sushchestvuet.", ips |-> {}]
             ELSE IF \A ip \in r.ips : is_forbidden_ip(ip)
             THEN [raises |-> FALSE, allowed |-> FALSE,
                   reason |-> "Domen rezolvitsya v privatnyi adres " \o (CHOOSE ip \in r.ips : is_forbidden_ip(ip)) \o ".",
                   ips |-> r.ips]
             ELSE [raises |-> FALSE, allowed |-> TRUE, reason |-> None, ips |-> r.ips]

\* _host_is_allowed for one outcome of getaddrinfo
host_is_allowed(host, dns) ==
    IF host = "" THEN [raises |-> FALSE, allowed |-> FALSE, reason |-> "URL bez domena.", ips |-> {}]
    ELSE LET r == resolve_host(host, dns)
         IN  IF r.raises THEN [raises |-> TRUE, allowed |-> FALSE, reason |-> None, ips |-> {}]
             ELSE IF r.ips = {}
             THEN [raises |-> FALSE, allowed |-> FALSE,
                   reason |-> "DNS ne otvechaet ili domen ne sushchestvuet.", ips |-> {}]
             ELSE IF \E ip \in r.ips : is_forbidden_ip(ip)
             THEN [raises |-> FALSE, allowed |-> FALSE,
                   reason |-> "Domen rezolvitsya v privatnyi adres " \o (CHOOSE ip \in r.ips : is_forbidden_ip(ip)) \o ".",
                   ips |-> r.ips]
             ELSE [raises |-> FALSE, allowed |-> TRUE, reason |-> None, ips |-> r.ips]

\* A Location header value, by what urljoin makes of it
NoLocation == [kind |-> "none"]
EmptyLocation == [kind |-> "empty"]
AbsLocation(u) == [kind |-> "abs", url |-> u]
RelLocation(path) == [kind |-> "rel", path |-> path]
\* "http://[bad": urlsplit raises ValueError (Invalid IPv6 URL)
BadLocation == [kind |-> "bad"]

Locations ==
    {AbsLocation(Url("http", h, "/")) : h \in Hosts \ {""}}
    \cup {AbsLocation(Url("ftp", "pub.example", "/")), RelLocation("/next"), BadLocation}

\* urljoin(current, location)
urljoin(base, loc) ==
    CASE loc.kind = "abs" -> [raises |-> FALSE, url |-> loc.url]
      [] loc.kind = "rel" -> [raises |-> FALSE, url |-> Url(base.scheme, base.host, loc.path)]
      [] loc.kind = "bad" -> [raises |-> TRUE, url |-> base]

FetchUrls ==
    {Url("https", h, "/") : h \in Hosts} \cup {Url("ftp", "pub.example", "/")}

REDIRECT_STATUSES == {"301", "302", "303", "307", "308"}

NoLength == [present |-> FALSE]
Length(n) == [present |-> TRUE, isdigit |-> TRUE, value |-> n]
BadLength == [present |-> TRUE, isdigit |-> FALSE, value |-> 0]

\* A response: status, the other headers it carries, Location, Content-Type,
\* Content-Length, the bytes its body really has, and whether reading the
\* body fails (None, "timeout", "payload").
Response(status, others, location, content_type, content_length, size, read_fails) ==
    [status |-> status, others |-> others, location |-> location,
     content_type |-> content_type, content_length |-> content_length,
     size |-> size, read_fails |-> read_fails]

\* dict(resp.headers)
HeadersOf(resp) ==
    resp.others
    \cup (IF resp.location.kind # "none" THEN {"Location"} ELSE {})
    \cup (IF resp.content_type # None THEN {"Content-Type"} ELSE {})
    \cup (IF resp.content_length.present THEN {"Content-Length"} ELSE {})

RedirectResponses ==
    {Response(st, {}, loc, None, NoLength, 0, None) :
        st \in REDIRECT_STATUSES, loc \in Locations \cup {NoLocation, EmptyLocation}}

TerminalResponses ==
    {Response("200", {"X-Frame-Options"}, NoLocation, "text/html", NoLength, 1200, None),
     Response("200", {}, NoLocation, "text/html", Length(500000), 500000, None),
     Response("200", {}, NoLocation, "text/html", NoLength, 200001, None),
     Response("200", {}, NoLocation, "TEXT/HTML; charset=utf-8", Length(200000), 200000, None),
     Response("200", {}, NoLocation, "text/html", BadLength, 0, None),
     Response("404", {}, NoLocation, "application/json", Length(17), 17, None),
     Response("300", {}, AbsLocation(Url("http", "pub.example", "/")), None, NoLength, 0, None),
     Response("200", {}, NoLocation, "text/html", NoLength, 1200, "timeout"),
     Response("200", {}, NoLocation, "text/html", NoLength, 1200, "payload")}

\* content_type.lower().startswith("text/html")
IsHtml(content_type) ==
    content_type \in {"text/html", "TEXT/HTML; charset=utf-8", "text/html; charset=utf-8"}

Body(n) == [present |-> TRUE, empty |-> n = 0, size |-> n]

\* _read_body without the look at Content-Length of lines 80-82
read_body_IgnoresLength(resp) ==
    IF resp.content_type = None \/ ~IsHtml(resp.content_type)
    THEN [fails |-> None, body |-> NoBody, read |-> 0]
    ELSE IF resp.read_fails # None
    THEN [fails |-> resp.read_fails, body |-> NoBody, read |-> 0]
    ELSE LET data == Min(resp.size, MAX_BODY_BYTES + 1)
         IN  IF data > MAX_BODY_BYTES
             THEN [fails |-> None, body |-> NoBody, read |-> data]
             ELSE [fails |-> None, body |-> Body(data), read |-> data]

\* _read_body: [fails, body, read], read being the bytes
\* resp.content.read(MAX_BODY_BYTES + 1) took from the stream
read_body(resp) ==
    IF resp.content_type = None \/ ~IsHtml(resp.content_type)
    THEN [fails |-> None, body |-> NoBody, read |-> 0]
    ELSE IF resp.content_length.present /\ resp.content_length.isdigit
            /\ resp.content_length.value > MAX_BODY_BYTES
    THEN [fails |-> None, body |-> NoBody, read |-> 0]
    ELSE IF resp.read_fails # None
    THEN [fails |-> resp.read_fails, body |-> NoBody, read |-> 0]
    ELSE LET data == Min(resp.size, MAX_BODY_BYTES + 1)
         IN  IF data > MAX_BODY_BYTES
             THEN [fails |-> None, body |-> NoBody, read |-> data]
             ELSE [fails |-> None, body |-> Body(data), read |-> data]

\* line 100 and line 104, with the status of the hop before kept in the result
BlockedResult_KeepsStatus(cur, chain_, reason) ==
    FetchResult(cur, IF Len(chain_) > 0 THEN "302" ELSE None, {}, NoBody, None, chain_, reason, None)

\* line 100 and line 104
BlockedResult(cur, chain_, reason) ==
    FetchResult(cur, None, {}, NoBody, None, chain_, reason, None)

\* lines 124 and 126
ErrorResult(cur, chain_, error) ==
    FetchResult(cur, None, {}, NoBody, None, chain_, None, error)

\* line 116
TooManyResult(cur, status, headers, chain_) ==
    FetchResult(cur, status, headers, NoBody, None, chain_, None, "Slishkom mnogo redirektov.")

\* line 115 with > for >=
ExceedsHops_OffByOne(step_) == step_ > MAX_REDIRECTS

\* line 115
ExceedsHops(step_) == step_ >= MAX_REDIRECTS

Hop(url, scheme_ok, resolved, raised, addrs) ==
    [url |-> url, scheme_ok |-> scheme_ok, resolved |-> resolved, raised |-> raised, ips |-> addrs]

Get(url, addr, kind) == [url |-> url, addr |-> addr, kind |-> kind]

\* a response received: whether its status made it a redirect, its
\* Content-Type and Content-Length, and the body bytes read from it
Read(redirect, content_type, content_length, n) ==
    [redirect |-> redirect, content_type |-> content_type,
     content_length |-> content_length, n |-> n]

\* addresses the connection of session.get may reach: the resolver is asked
\* again, or the literal address is used
ConnectAddrs(host) ==
    IF ParsesAsIp(host) THEN {host}
    ELSE UNION {a.addrs : a \in {d \in getaddrinfo(host) : d.kind = "addrs"}}

FDone(result) ==
    /\ fpc' = "done"
    /\ fres' = result

\* safe_fetch is called: lines 92-96
FetchCall ==
    /\ fpc = "idle"
    /\ \E u \in FetchUrls :
         /\ furl' = u
         /\ current' = u
    /\ fpc' = "check"
    /\ step' = 0
    /\ chain' = <<>>
    /\ UNCHANGED <<ips, checked, gets, reads, fres, avars, nvars, dvars, ivars, cvars, gvars, qvars, uvars, vvars, wvars>>

\* lines 98-104: the scheme check and _host_is_allowed for the current hop
HopCheck ==
    /\ fpc = "check"
    /\ IF current.scheme \notin {"http", "https"}
       THEN /\ FDone(BlockedResult(current, chain, "Razresheny tolko http/https ssylki."))
            /\ checked' = Append(checked, Hop(current, FALSE, FALSE, FALSE, {}))
            /\ UNCHANGED ips
       ELSE \E dns \in getaddrinfo(current.host) :
              LET h == host_is_allowed(current.host, dns)
                  hop == Hop(current, TRUE, current.host # "", h.raises, h.ips)
              IN  /\ checked' = Append(checked, hop)
                  /\ IF h.raises
                     THEN /\ fpc' = "raised"
                          /\ UNCHANGED <<ips, fres>>
                     ELSE IF ~h.allowed
                     THEN /\ FDone(BlockedResult(current, chain, h.reason))
                          /\ UNCHANGED ips
                     ELSE /\ fpc' = "get"
                          /\ ips' = h.ips
                          /\ UNCHANGED fres
    /\ UNCHANGED <<furl, current, step, chain, gets, reads, avars, nvars, dvars, ivars, cvars, gvars, qvars, uvars, vvars, wvars>>

\* lines 107 and 123-124: the request times out
GetTimeout ==
    /\ fpc = "get"
    /\ \E a \in ConnectAddrs(current.host) \cup {None} :
         gets' = Append(gets, Get(current, a, "timeout"))
    /\ FDone(ErrorResult(current, chain, "Taimaut zaprosa."))
    /\ UNCHANGED <<furl, current, step, chain, ips, checked, reads, avars, nvars, dvars, ivars, cvars, gvars, qvars, uvars, vvars, wvars>>

\* lines 107 and 125-126: the request fails with an aiohttp.ClientError
GetClientError ==
    /\ fpc = "get"
    /\ \E a \in ConnectAddrs(current.host) \cup {None} :
         gets' = Append(gets, Get(current, a, "clienterror"))
    /\ FDone(ErrorResult(current, chain, "Oshibka zaprosa: connection reset"))
    /\ UNCHANGED <<furl, current, step, chain, ips, checked, reads, avars, nvars, dvars, ivars, cvars, gvars, qvars, uvars, vvars, wvars>>

\* lines 107-118 and the loop header of line 97: a response with a redirect status
GetRedirect ==
    /\ fpc = "get"
    /\ \E a \in ConnectAddrs(current.host) :
         gets' = Append(gets, Get(current, a, "redirect"))
    /\ reads' = Append(reads, Read(TRUE, None, NoLength, 0))
    /\ \E resp \in RedirectResponses :
         IF resp.location.kind \in {"none", "empty"}
         THEN /\ FDone(FetchResult(current, resp.status, HeadersOf(resp), NoBody, None, chain, None, None))
              /\ UNCHANGED <<current, step, chain>>
         ELSE /\ chain' = Append(chain, current)
              /\ IF ExceedsHops(step)
                 THEN /\ FDone(TooManyResult(current, resp.status, HeadersOf(resp), chain'))
                      /\ UNCHANGED <<current, step>>
                 ELSE LET j == urljoin(current, resp.location)
                      IN  IF j.raises
                          THEN /\ fpc' = "raised"
                               /\ UNCHANGED <<current, step, fres>>
                          ELSE /\ current' = j.url
                               /\ step' = step + 1
                               /\ IF step + 1 > MAX_REDIRECTS
                                  THEN FDone(ErrorResult(j.url, chain', "Neizvestnaya oshibka."))
                                  ELSE /\ fpc' = "check"
                                       /\ UNCHANGED fres
    /\ UNCHANGED <<furl, ips, checked, avars, nvars, dvars, ivars, cvars, gvars, qvars, uvars, vvars, wvars>>

\* lines 107-110 and 120-126: any other response; its body is read
GetTerminal ==
    /\ fpc = "get"
    /\ \E a \in ConnectAddrs(current.host) :
         gets' = Append(gets, Get(current, a, "terminal"))
    /\ \E resp \in TerminalResponses :
         LET b == read_body(resp)
         IN  /\ reads' = Append(reads, Read(FALSE, resp.content_type, resp.content_length, b.read))
             /\ IF b.fails = "timeout"
                THEN FDone(ErrorResult(current, chain, "Taimaut zaprosa."))
                ELSE IF b.fails = "payload"
                THEN FDone(ErrorResult(current, chain, "Oshibka zaprosa: payload is not completed"))
                ELSE FDone(FetchResult(current, resp.status, HeadersOf(resp), b.body,
                                       resp.content_type, chain, None, None))
    /\ UNCHANGED <<furl, current, step, chain, ips, checked, avars, nvars, dvars, ivars, cvars, gvars, qvars, uvars, vvars, wvars>>

FNext ==
    \/ FetchCall
    \/ HopCheck
    \/ GetTimeout
    \/ GetClientError
    \/ GetRedirect
    \/ GetTerminal

\* analyze_url at rest while safe_fetch is looked at on its own
AOff ==
    /\ pc = "off"
    /\ inp = [url |-> RawPlain, vt_api_key |-> None, gsb_api_key |-> None,
              urlscan_api_key |-> None, deepcheck |-> FALSE]
    /\ tasks = [t \in Sources |-> Idle]
    /\ acc = Acc(0, <<>>, <<>>, <<>>, <<>>)
    /\ scan = Idle
    /\ report = NoReport
    /\ io = {}
    /\ prior = NoPrior

FetchInit == AOff /\ FIdle /\ NIdle /\ DIdle /\ IIdle /\ CIdle /\ GIdle /\ QIdle /\ UIdle /\ VIdle /\ WIdle

FetchSpec == FetchInit /\ [][FNext]_vars

\* the event loop runs safe_fetch on: every await of it comes back, with a
\* result, an exception or the 8 s timeout of the session
FetchLiveSpec == FetchSpec /\ WF_vars(FNext)

(***************************************************************************)
(* Properties of safe_fetch                                                *)
(***************************************************************************)
FetchDone == fpc = "done"
Last(seq) == seq[Len(seq)]

\* the hop passed every check of lines 99-104
HopPassed(c) ==
    /\ c.scheme_ok
    /\ c.url.scheme \in {"http", "https"}
    /\ c.url.host # ""
    /\ c.resolved
    /\ ~c.raised
    /\ c.ips # {}
    /\ \A ip \in c.ips : ~is_forbidden_ip(ip)

\* C5: the i-th GET is sent for the i-th hop checked, and that hop passed the
\* scheme check and the check of its resolved addresses; a hop that did not
\* pass gets no GET, and the call that returns there returns blocked_reason.
C5_EveryHopChecked ==
    /\ Len(gets) <= Len(checked)
    /\ Len(checked) <= Len(gets) + 1
    /\ \A i \in 1..Len(gets) : gets[i].url = checked[i].url /\ HopPassed(checked[i])
    /\ \A i \in 1..Len(checked) : ~HopPassed(checked[i]) => (i = Len(checked) /\ Len(gets) = i - 1)
    /\ (FetchDone /\ Len(checked) > 0 /\ ~HopPassed(Last(checked)) /\ ~Last(checked).raised) =>
           /\ fres.blocked_reason # None
           /\ fres.final_url = Last(checked).url

C5_Witness ==
    /\ FetchDone
    /\ Len(checked) = 2
    /\ checked[1].url.host = "pub.example"
    /\ checked[2].url.host = "intra.example"
    /\ Len(gets) = 1
    /\ fres.blocked_reason = "Domen rezolvitsya v privatnyi adres 10.0.0.5."

C6_Bounded ==
    /\ step <= MAX_REDIRECTS
    /\ Len(gets) <= MAX_REDIRECTS + 1
    /\ Len(chain) <= MAX_REDIRECTS + 1
    /\ (FetchDone /\ Len(gets) = MAX_REDIRECTS + 1 /\ Last(gets).kind = "redirect"
          /\ Len(chain) = MAX_REDIRECTS + 1) =>
           fres.error = "Slishkom mnogo redirektov."
    /\ (FetchDone /\ fres.error = "Slishkom mnogo redirektov.") =>
           Len(gets) = MAX_REDIRECTS + 1
    /\ (FetchDone /\ Len(chain) = MAX_REDIRECTS /\ Len(gets) = MAX_REDIRECTS + 1
          /\ Last(gets).kind = "terminal" /\ fres.status # None) =>
           (fres.error = None /\ fres.blocked_reason = None)

\* C6: a call of safe_fetch ends; it follows at most MAX_REDIRECTS redirects
\* and sends at most MAX_REDIRECTS + 1 GETs; a redirect answered to the last
\* of them gives the error "too many redirects", and a terminal response
\* after exactly MAX_REDIRECTS redirects is a success.
C6_RedirectsBounded == [](C6_Bounded) /\ (fpc = "check" ~> fpc \in {"done", "raised"})

C6_Witness ==
    /\ FetchDone
    /\ Len(chain) = MAX_REDIRECTS
    /\ Len(gets) = MAX_REDIRECTS + 1
    /\ Last(gets).kind = "terminal"
    /\ fres.status = "200"
    /\ fres.body_text.present
    /\ chain[2] = chain[4] /\ chain[3] = chain[5] /\ chain[2] # chain[3]

\* C7: safe_fetch never ends with an exception.
C7_NeverRaises == fpc # "raised"

\* C8 as claimed: blocked_reason and error are never both set, and a result
\* with a status, headers or a body has neither.
C8_AsClaimed ==
    FetchDone =>
        /\ ~(fres.blocked_reason # None /\ fres.error # None)
        /\ (fres.status # None \/ fres.headers # {} \/ fres.body_text.present) =>
               (fres.blocked_reason = None /\ fres.error = None)

\* C8: blocked_reason and error are never both set; a result with a body or a
\* content type has neither; a result with a status or headers has no
\* blocked_reason, and has an error only when it is the "too many
\* redirects" result, which keeps the status and headers of the last redirect.
C8_OneOutcome ==
    FetchDone =>
        /\ ~(fres.blocked_reason # None /\ fres.error # None)
        /\ (fres.body_text.present \/ fres.content_type # None) =>
               (fres.blocked_reason = None /\ fres.error = None)
        /\ (fres.status # None \/ fres.headers # {}) =>
               /\ fres.blocked_reason = None
               /\ fres.error \in {None, "Slishkom mnogo redirektov."}
        /\ fres.error = "Slishkom mnogo redirektov." =>
               (fres.status \in REDIRECT_STATUSES /\ "Location" \in fres.headers)

C8_Witness ==
    /\ FetchDone
    /\ fres.error = "Slishkom mnogo redirektov."
    /\ fres.status = "302"
    /\ fres.headers = {"Location"}

(***************************************************************************)
(* normalize_url on its own: what is typed, what urlsplit makes of it      *)
(***************************************************************************)
\* user@host:port as typed
Authority(user, host, port) == [user |-> user, host |-> host, port |-> port]

Authorities ==
    {Authority("", "example.com", ""), Authority("", "EXAMPLE.com", "8080"),
     Authority("", "example.com", "99999"), Authority("", IdnPunycode, ""),
     Authority("", "XN--E1AFMKFD.XN--P1AI", ""), Authority("", IdnUnicode, ""),
     Authority("", "xn--a.com", ""), Authority("user", "10.0.0.5", ""),
     Authority("", "", "")}

\* path and query as typed
Rest(path, query) == [path |-> path, query |-> query]

Tails == {Rest("", ""), Rest("/p", ""), Rest("/", "next=http://evil.example/")}

\* A raw text: spaces around it or not, the scheme typed before "://" ("" when
\* none is typed), the authority, the tail
Typed(pad, scheme, auth, tail) == [pad |-> pad, scheme |-> scheme, auth |-> auth, tail |-> tail]

NormInputs ==
    {Typed(pad, scheme, auth, tail) :
        pad \in BOOLEAN, scheme \in {"", "http", "HTTPS", "ftp"},
        auth \in Authorities, tail \in Tails}

AuthorityText(a) ==
    (IF a.user = "" THEN "" ELSE a.user \o "@") \o a.host
    \o (IF a.port = "" THEN "" ELSE ":" \o a.port)

\* "://" in raw
HasSeparator(text) == text.scheme # "" \/ text.tail.query = "next=http://evil.example/"

\* an ASCII text that starts with a letter and has scheme characters only:
\* what urlsplit takes for a scheme when a ":" follows it
SchemeLike(t) == t \in {"example.com", "EXAMPLE.com", "xn--a.com", IdnPunycode, "XN--E1AFMKFD.XN--P1AI"}

\* parts.port: ValueError out of 0..65535
PortOk(port) == port # "99999"

\* labels, length, hyphens and digits of a host
HostStats(host) ==
    CASE host = "example.com" -> <<2, 11, 0, 0>>
      [] host = IdnPunycode -> <<2, 21, 4, 2>>
      [] host = IdnUnicode -> <<2, 9, 0, 0>>
      [] host = "xn--a.com" -> <<2, 9, 2, 0>>
      [] host = "10.0.0.5" -> <<4, 8, 0, 5>>
      [] host = "bad.example" -> <<2, 11, 0, 0>>
      [] host = "evil.example" -> <<2, 12, 0, 0>>
      [] OTHER -> <<0, 0, 0, 0>>

\* raw.strip(), the "https://" of line 62 and urlsplit: with "://" in the text
\* or put before it, scheme, netloc and path are what was typed; a text with
\* "://" only in its query has no netloc, and the part before its first ":"
\* is its scheme when it looks like one
RawOf(text) ==
    LET a == text.auth
        blank == text.scheme = "" /\ AuthorityText(a) = "" /\ text.tail.path = "" /\ text.tail.query = ""
        sep == HasSeparator(text)
        netloc == text.scheme # "" \/ ~sep
        u == IF netloc THEN Url(text.scheme, a.host, text.tail.path)
             ELSE IF a.port # "" /\ a.user = "" /\ SchemeLike(a.host)
             THEN Url(a.host, "", a.port \o text.tail.path)
             ELSE Url("", "", AuthorityText(a) \o text.tail.path)
        st == HostStats(LowerText(u.host))
    IN  Raw(blank, ~netloc \/ PortOk(a.port), sep, u,
            a.user # "", u.host = "10.0.0.5",
            IF text.tail.query = "" THEN <<>> ELSE <<"next">>,
            st[1], st[2], st[3], st[4])

NoResult == [st |-> "none"]

NInit ==
    /\ nin \in NormInputs
    /\ nout = NoResult

NormalizeCall ==
    /\ nout = NoResult
    /\ nout' = normalize_url(RawOf(nin))
    /\ UNCHANGED <<nin, avars, fvars, dvars, ivars, cvars, gvars, qvars, uvars, vvars, wvars>>

NNext == NormalizeCall

NormInit == AOff /\ FIdle /\ DIdle /\ NInit /\ IIdle /\ CIdle /\ GIdle /\ QIdle /\ UIdle /\ VIdle /\ WIdle

NormSpec == NormInit /\ [][NNext]_vars

NAccepted == nout # NoResult /\ ~nout.raises

\* C19: an accepted input typed without a scheme is read as https, and the
\* normalized URL of every accepted input has a scheme and a non-empty path.
C19_SchemeAndPath ==
    NAccepted =>
        /\ nin.scheme = "" => nout.scheme = "https"
        /\ nout.normalized.scheme # ""
        /\ nout.normalized.scheme = nout.scheme
        /\ nout.path # "" /\ nout.normalized.path = nout.path

IsIdn(host) == LowerText(host) \in {IdnPunycode, IdnUnicode}

\* C20: an accepted input whose host is an internationalized name, typed in
\* punycode or in Unicode, has host in punycode and display_host in Unicode,
\* so that the two differ.
C20_IdnHost ==
    (NAccepted /\ IsIdn(nin.auth.host) /\ nout.host # "") =>
        /\ nout.host = IdnPunycode
        /\ nout.display_host = IdnUnicode
        /\ nout.display_host # nout.host

(***************************************************************************)
(* threat_feeds: _parse_lines, _load_feed and the state they keep          *)
(* (_cache in memory, the feed file and meta.json on disk)                 *)
(***************************************************************************)
CACHE_TTL_SECONDS == 6 * 60 * 60

\* values of loop.time(), in seconds
Instants == {1000, 10000, 22600, 30000, 60000}

\* One line of a feed text: a comment or blank line, a line urlsplit raises
\* on ("http://[bad"), or a URL as typed
CommentLine == [kind |-> "comment"]
UnsplitLine == [kind |-> "unsplit"]
UrlLine(text) == [kind |-> "url", text |-> text]

\* "http://bad.example/mal.exe", "evil.example:8080/p/",
\* "http://bad.example:99999/x", "/p" (a line without a host)
LineListed == UrlLine(Typed(FALSE, "http", Authority("", "bad.example", ""), Rest("/mal.exe", "")))
LineBare == UrlLine(Typed(FALSE, "", Authority("", "evil.example", "8080"), Rest("/p/", "")))
LineBadPort == UrlLine(Typed(FALSE, "http", Authority("", "bad.example", "99999"), Rest("/x", "")))
LineNoHost == UrlLine(Typed(FALSE, "", Authority("", "", ""), Rest("/p", "")))

FeedTexts ==
    {<<>>,
     <<CommentLine, LineListed, LineBare>>,
     <<LineListed, LineBadPort>>,
     <<CommentLine, UnsplitLine, LineNoHost>>}

\* str.rstrip("/") on the paths the model uses
StripSlash(path) ==
    CASE path = "/" -> ""
      [] path = "/p/" -> "/p"
      [] path = "/mal.exe/" -> "/mal.exe"
      [] OTHER -> path

\* lines 87-101 for one line: the value the line stands for, whether it is
\* skipped, and what normalize_url makes of it
ParsedLine(line) ==
    IF line.kind # "url" THEN [skip |-> TRUE]
    ELSE LET value == IF line.text.scheme = "" THEN [line.text EXCEPT !.scheme = "http"] ELSE line.text
             host == LowerText(value.auth.host)
             n == normalize_url(RawOf(value))
         IN  IF host = "" THEN [skip |-> TRUE]
             ELSE [skip |-> FALSE, host |-> host, raises |-> n.raises,
                   url |-> IF n.raises THEN Url("", "", "")
                           ELSE Url(n.normalized.scheme, n.normalized.host, StripSlash(n.normalized.path))]

\* _parse_lines: the ValueError of normalize_url on a line leaves it
parse_lines(text) ==
    LET kept == {ParsedLine(text[i]) : i \in 1..Len(text)} \ {[skip |-> TRUE]}
    IN  IF \E l \in kept : l.raises THEN [raises |-> TRUE]
        ELSE [raises |-> FALSE, urls |-> {l.url : l \in kept}, domains |-> {l.host : l \in kept}]

\* born is history: when the text was fetched from the network, on the clock
\* of this run (before 0: before the clock of this run began)
FeedData(urls, domains, loaded_at, stale, born) ==
    [present |-> TRUE, urls |-> urls, domains |-> domains, loaded_at |-> loaded_at, stale |-> stale,
     born |-> born]

NoSnapshot == [present |-> FALSE]
NoFile == [exists |-> FALSE]
File(text, born) == [exists |-> TRUE, text |-> text, born |-> born]
\* meta.get(name): None, or the time of the last successful fetch
NoMeta == [present |-> FALSE, at |-> 0]
Meta(at) == [present |-> TRUE, at |-> at]

\* check_url lines 155-156: url.lower().rstrip("/") and host.lower()
Canonical(u) == Url(LowerText(u.scheme), LowerText(u.host), StripSlash(LowerText(u.path)))

\* The url and host check_url is called with: a listed URL with its host; the
\* same in capitals and with a trailing slash; the listed host under another
\* scheme; another page of the listed host; a listed host that is only in
\* the domain set; a host that is not listed; a listed URL given with a host
\* that is not listed
Query(url, host) == [url |-> url, host |-> host]
Queries ==
    {Query(Url("http", "bad.example", "/mal.exe"), "bad.example"),
     Query(Url("http", "BAD.example", "/Mal.EXE/"), "BAD.example"),
     Query(Url("https", "bad.example", "/mal.exe"), "bad.example"),
     Query(Url("http", "bad.example", "/other"), "bad.example"),
     Query(Url("https", "evil.example", "/"), "evil.example"),
     Query(Url("https", "good.example", "/"), "good.example"),
     Query(Url("http", "bad.example", "/mal.exe"), "good.example")}

FEEDS == <<"URLhaus">>

StaleMark(data) == IF data.stale THEN " (kesh ustarel)" ELSE ""

\* check_url without the continue of line 165: a URL match does not end the
\* feed's turn
MatchFeed_NoContinue(name, q, data) ==
    (IF Canonical(q.url) \in data.urls
     THEN <<FeedFinding(name, "url", "sovpadenie URL" \o StaleMark(data))>>
     ELSE <<>>)
    \o (IF LowerText(q.host) \in data.domains
        THEN <<FeedFinding(name, "domain", "sovpadenie domena" \o StaleMark(data))>>
        ELSE <<>>)

\* check_url lines 160-170 for one feed: the URL match first, then the domain
MatchFeed(name, q, data) ==
    IF Canonical(q.url) \in data.urls
    THEN <<FeedFinding(name, "url", "sovpadenie URL" \o StaleMark(data))>>
    ELSE IF LowerText(q.host) \in data.domains
    THEN <<FeedFinding(name, "domain", "sovpadenie domena" \o StaleMark(data))>>
    ELSE <<>>

\* check_url lines 158-172: the findings of the feeds, in the order of FEEDS
Findings(q, data) == MatchFeed(FEEDS[1], q, data)

\* what _load_feed gave, and by which of its paths
Loaded(via, data) == [via |-> via, data |-> data]

\* What an earlier run of the process left in the feed directory: nothing;
\* a file and the time in meta.json of a run on the same clock (since the
\* same boot), 500 s after its origin; a file fetched 31000 s before now and
\* the time a run on another clock (before a reboot) wrote for it; a file
\* without meta.json
Left(file, time) == [file |-> file, time |-> time]
EarlierRuns ==
    {Left(NoFile, NoMeta)}
    \cup {Left(File(t, 500), Meta(500)) : t \in FeedTexts}
    \cup {Left(File(t, -30000), m) : t \in FeedTexts, m \in {NoMeta, Meta(900), Meta(30000)}}

\* Process start: nothing in memory
DInit ==
    /\ now = 1000
    /\ mem = NoSnapshot
    /\ \E l \in EarlierRuns : disk = l.file /\ meta = l.time
    /\ lpc = "idle"
    /\ lres = Loaded("none", NoSnapshot)

\* time passes between two calls (a call uses the time it read at line 115)
Tick ==
    /\ lpc = "idle"
    /\ \E t \in Instants : t > now /\ now' = t
    /\ UNCHANGED <<mem, disk, meta, lpc, lres, avars, fvars, nvars, ivars, cvars, gvars, qvars, uvars, vvars, wvars>>

\* check_url calls _load_feed, lines 115-131: the snapshot in memory when it
\* is younger than the TTL, else the file when meta.json says it is, else the
\* network fetch is awaited
LoadFeed ==
    /\ lpc = "idle"
    /\ \E q \in Queries : lin' = q
    /\ IF mem.present /\ now - mem.loaded_at < CACHE_TTL_SECONDS
       THEN /\ lpc' = "returned"
            /\ lres' = Loaded("memory", mem)
            /\ lout' = Findings(lin', mem)
            /\ UNCHANGED mem
       ELSE IF meta.present /\ meta.at # 0 /\ disk.exists /\ now - meta.at < CACHE_TTL_SECONDS
       THEN LET p == parse_lines(disk.text)
            IN  IF p.raises
                THEN /\ lpc' = "raised"
                     /\ lres' = Loaded("disk", NoSnapshot)
                     /\ UNCHANGED <<mem, lout>>
                ELSE /\ lpc' = "returned"
                     /\ mem' = FeedData(p.urls, p.domains, meta.at, FALSE, disk.born)
                     /\ lres' = Loaded("disk", mem')
                     /\ lout' = Findings(lin', mem')
       ELSE /\ lpc' = "fetch"
            /\ UNCHANGED <<mem, lres, lout>>
    /\ UNCHANGED <<now, disk, meta, avars, fvars, nvars, ivars, cvars, gvars, uvars, vvars, wvars>>

\* lines 134-141, and 142-149 when _parse_lines raises on the text just written
RefreshOk ==
    /\ lpc = "fetch"
    /\ \E text \in FeedTexts :
         LET p == parse_lines(text)
         IN  /\ disk' = File(text, now)
             /\ meta' = Meta(now)
             /\ IF p.raises
                THEN /\ lpc' = "raised"
                     /\ lres' = Loaded("network", NoSnapshot)
                     /\ UNCHANGED <<mem, lout>>
                ELSE /\ lpc' = "returned"
                     /\ mem' = FeedData(p.urls, p.domains, now, FALSE, now)
                     /\ lres' = Loaded("network", mem')
                     /\ lout' = Findings(lin, mem')
    /\ UNCHANGED <<now, lin, avars, fvars, nvars, ivars, cvars, gvars, uvars, vvars, wvars>>

\* lines 142-150: _fetch_text raised (network error, HTTP error, timeout)
RefreshFail ==
    /\ lpc = "fetch"
    /\ IF disk.exists
       THEN LET p == parse_lines(disk.text)
            IN  IF p.raises
                THEN /\ lpc' = "raised"
                     /\ lres' = Loaded("failed", NoSnapshot)
                     /\ UNCHANGED <<mem, lout>>
                ELSE /\ lpc' = "returned"
                     /\ mem' = FeedData(p.urls, p.domains,
                                        IF meta.present /\ meta.at # 0 THEN meta.at ELSE now, TRUE,
                                        disk.born)
                     /\ lres' = Loaded("failed", mem')
                     /\ lout' = Findings(lin, mem')
       ELSE /\ lpc' = "returned"
            /\ lres' = Loaded("failed", FeedData({}, {}, now, TRUE, now))
            /\ lout' = Findings(lin, lres'.data)
            /\ UNCHANGED mem
    /\ UNCHANGED <<now, lin, disk, meta, avars, fvars, nvars, ivars, cvars, gvars, uvars, vvars, wvars>>

\* the next analysis calls check_url
NextCall ==
    /\ lpc \in {"returned", "raised"}
    /\ lpc' = "idle"
    /\ lin' = NoQuery
    /\ lout' = <<>>
    /\ UNCHANGED <<now, mem, disk, meta, lres, avars, fvars, nvars, ivars, cvars, gvars, uvars, vvars, wvars>>

DNext ==
    \/ Tick
    \/ LoadFeed
    \/ RefreshOk
    \/ RefreshFail
    \/ NextCall

FeedInit == AOff /\ FIdle /\ NIdle /\ DInit /\ IIdle /\ CIdle /\ GIdle /\ QIdle /\ UIdle /\ VIdle /\ WIdle

FeedSpec == FeedInit /\ [][DNext]_vars

\* the entries of the on-disk copy, line by line as the claim reads them
Listed(text) ==
    [urls |-> {ParsedLine(text[i]).url : i \in {j \in 1..Len(text) : ~ParsedLine(text[j]).skip}},
     domains |-> {ParsedLine(text[i]).host : i \in {j \in 1..Len(text) : ~ParsedLine(text[j]).skip}}]

\* C17: when the refresh fails, check_url returns and does not raise; with an
\* on-disk copy _load_feed gives the entries of that copy, stale, whatever
\* its age; without one it gives an empty stale snapshot.
C17_StaleFallback ==
    (lpc \in {"returned", "raised"} /\ lres.via = "failed") =>
        /\ lpc = "returned"
        /\ lres.data.stale
        /\ IF disk.exists
           THEN /\ lres.data.urls = Listed(disk.text).urls
                /\ lres.data.domains = Listed(disk.text).domains
           ELSE lres.data.urls = {} /\ lres.data.domains = {}

(***************************************************************************)
(* is_forbidden_ip on its own                                              *)
(***************************************************************************)
\* Texts ipaddress.ip_address rejects: a leading zero, a short form, a name
NotAddresses == {"010.0.0.5", "127.1", "localhost"}

IpInputs == {a.text : a \in Addresses} \cup NotAddresses

IInit == iin = None /\ iout = [st |-> "none"]

ForbiddenCall ==
    /\ \E text \in IpInputs :
         /\ iin' = text
         /\ iout' = [st |-> "returned", forbidden |-> is_forbidden_ip(text)]
    /\ UNCHANGED <<avars, fvars, nvars, dvars, cvars, gvars, qvars, uvars, vvars, wvars>>

INext == ForbiddenCall

IpInit == AOff /\ FIdle /\ NIdle /\ DIdle /\ IInit /\ CIdle /\ GIdle /\ QIdle /\ UIdle /\ VIdle /\ WIdle

IpSpec == IpInit /\ [][INext]_vars

\* The address a text stands for, read off the table of addresses
Called == iout.st = "returned" /\ \E a \in Addresses : a.text = iin
Given == CHOOSE a \in Addresses : a.text = iin

\* The ranges of the claim, as ranges of numbers
Private4(g) ==
    \/ g[1] = 127
    \/ g[1] = 10
    \/ g[1] = 172 /\ g[2] >= 16 /\ g[2] <= 31
    \/ g[1] = 192 /\ g[2] = 168
    \/ g[1] = 169 /\ g[2] = 254
Private6(g) ==
    \/ g = <<0, 0, 0, 0, 0, 0, 0, 1>>
    \/ g[1] >= 64512 /\ g[1] <= 65023
    \/ g[1] >= 65152 /\ g[1] <= 65215
PublicExamples == {"8.8.8.8", "1.1.1.1", "93.184.216.34", "2001:0:0:0:0:0:0:1"}

\* C21: is_forbidden_ip is true for every IPv4 address in 127/8, 10/8,
\* 172.16/12, 192.168/16, 169.254/16 and every IPv6 address in ::1/128,
\* fc00::/7, fe80::/10, and false for public addresses such as 8.8.8.8.
C21_ForbiddenRanges ==
    Called =>
        /\ (Given.v = 4 /\ Private4(Given.g)) => iout.forbidden
        /\ (Given.v = 6 /\ Private6(Given.g)) => iout.forbidden
        /\ iin \in PublicExamples => ~iout.forbidden

\* an address on the last place of 172.16/12 is refused, and 8.8.8.8 is not
C21_Witness ==
    /\ Called
    /\ iin = "172.31.0.255"
    /\ iout.forbidden
    /\ is_forbidden_ip("fdff:ffff:0:0:0:0:0:1")
    /\ ~is_forbidden_ip("8.8.8.8")

(***************************************************************************)
(* analyze_url called again with the same arguments                        *)
(***************************************************************************)
RepeatInputs ==
    {[url |-> RawPlain, vt_api_key |-> "key", gsb_api_key |-> "key",
      urlscan_api_key |-> "key", deepcheck |-> FALSE],
     [url |-> RawShort, vt_api_key |-> None, gsb_api_key |-> "",
      urlscan_api_key |-> None, deepcheck |-> TRUE]}

RepeatInit == Init /\ inp \in RepeatInputs

\* The Report is returned and analyze_url is called again with the same
\* arguments: a new call has new locals, and nothing of the call before is
\* left in risk_engine; the lookups answer as they did (Replays)
Again ==
    /\ pc = "returned"
    /\ ~prior.set
    /\ prior' = Prior(tasks, scan, report)
    /\ pc' = "start"
    /\ tasks' = [t \in Sources |-> Idle]
    /\ scan' = Idle
    /\ report' = NoReport
    /\ UNCHANGED <<inp, acc, io, fvars, nvars, dvars, ivars, cvars, gvars, qvars, uvars, vvars, wvars>>

RNext ==
    \/ ANext
    \/ Again

RepeatSpec == RepeatInit /\ [][RNext]_vars

DefaultReason == "Yavnyh priznakov riska ne naideno."
FetchQuiet(r, host) ==
    /\ r.blocked_reason = None
    /\ r.error = None
    /\ missing_security_headers(r.headers) = <<>>
    /\ redirect_summary(r.redirect_chain, r.final_url).reason = None
    /\ (r.body_text.present /\ ~r.body_text.empty) => analyze_html(r.body_text, host) = <<>>
NoReason ==
    /\ Heuristic.reasons = <<>>
    /\ ~FeedHit
    /\ ~GsbIs("hit")
    /\ ~VtIs("hit")
    /\ Ok("fetch") => FetchQuiet(tasks["fetch"].payload, normalize_url(inp.url).host)

\* C23: every Report has a reason; the default reason is there exactly when
\* no heuristic, intelligence, fetch or content check gave one, and then it
\* is the only reason.
C23_ReasonsNeverEmpty ==
    Returned =>
        /\ Len(report.reasons) >= 1
        /\ Has(report.reasons, DefaultReason) <=> NoReason
        /\ NoReason => report.reasons = <<DefaultReason>>

\* every lookup and the deep scan failed in the wrapper: the default reason
\* alone, technical and intel empty
C23_Witness ==
    /\ Returned
    /\ NoReason
    /\ report.reasons = <<DefaultReason>>
    /\ report.technical = <<>>
    /\ report.intel = <<>>
    /\ Len(report.unavailable) = 5

\* the fan-out as analyze_url sees it
AllStarted == \A t \in Sources : tasks[t].st \in {"running", "done"}
AllFinished == \A t \in Sources : tasks[t].st = "done"
NothingMerged == acc = Acc(Heuristic.score, Heuristic.reasons, <<>>, <<>>, <<>>)

\* C24: the four operations of the fan-out are all started before one of
\* them is complete; nothing of their results (content scan included) is
\* merged, and no deep-scan request is in flight or was sent, while one of
\* them still runs.
C24_FanOutThenScan ==
    /\ (\E t \in Sources : tasks[t].st = "done") => AllStarted
    /\ (pc = "gather" /\ Accepted) => NothingMerged /\ scan.st = "idle"
    /\ (scan.st # "idle" \/ "scan: request" \in io) => AllFinished

\* the deep scan in flight after a fan-out in which one operation timed out
\* and the page that was fetched has been scanned
C24_Witness ==
    /\ pc = "scan"
    /\ scan.st = "running"
    /\ AllFinished
    /\ TimedOut("vt")
    /\ FetchOkay
    /\ Len(acc.technical) >= 3

\* The lists and the score that merging in the order heuristic, feeds, safe
\* browsing, reputation, fetch, deep scan gives for the outcomes of this run
InFixedOrder ==
    IF scan.st = "done" THEN MergeScan(Merged, scan)
    ELSE [Merged EXCEPT !.intel = Append(@, "urlscan.io: propushcheno (zapusti /deepcheck dlya polnogo skana).")]

\* C25: the Report is the one that merging the outcomes in the fixed order
\* heuristic, feeds, safe browsing, reputation, fetch, deep scan gives,
\* whatever the order in which the four concurrent operations completed.
C25_OrderFree ==
    Returned => report = Compose(normalize_url(inp.url), InFixedOrder)

\* every source has something to say: the reasons of the heuristics, the
\* feeds, safe browsing, reputation and the fetch stand in that order
C25_Witness ==
    /\ Returned
    /\ Heuristic.reasons # <<>>
    /\ FeedHit
    /\ GsbIs("hit")
    /\ VtIs("hit")
    /\ FetchOkay
    /\ Len(report.reasons) >= Len(Heuristic.reasons) + 4
    /\ report.reasons[Len(Heuristic.reasons) + 1] = "Sovpadenie v publichnyh bazah ugroz."
    /\ report.reasons[Len(Heuristic.reasons) + 2] = "Google Safe Browsing: obnaruzheny ugrozy."
    /\ report = Compose(normalize_url(inp.url), InFixedOrder)

(***************************************************************************)
(* threat_feeds: _load_feed called by analyses that run concurrently       *)
(***************************************************************************)
\* loop.time() at the calls: two of them a few seconds apart
CallInstants == {1000, 1005, 30000}

\* the longest a fetch stays suspended: ClientTimeout(total=TIMEOUT_SECONDS)
TIMEOUT_SECONDS == 8

\* what the network may give to a refresh
FetchedTexts == {<<LineListed>>, <<CommentLine, LineListed, LineBare>>, <<LineListed, LineBadPort>>}

CInit ==
    /\ now = 1000
    /\ mem = NoSnapshot
    /\ disk \in {NoFile, File(<<LineListed>>, 1000)}
    /\ meta \in {NoMeta, Meta(1000)}
    /\ lpc = "off"
    /\ lres = Loaded("none", NoSnapshot)
    /\ cpc = [c \in Callers |-> "idle"]
    /\ cloc = [c \in Callers |-> [now |-> 0, cached_at |-> NoMeta]]
    /\ cres = [c \in Callers |-> Loaded("none", NoSnapshot)]

\* time passes; a call suspended in _fetch_text is resumed before its
\* timeout
CTick ==
    /\ \E t \in CallInstants :
         /\ t > now
         /\ \A c \in Callers : cpc[c] = "fetch" => t - cloc[c].now <= TIMEOUT_SECONDS
         /\ now' = t
    /\ UNCHANGED <<mem, disk, meta, lpc, lres, cvars, avars, fvars, nvars, ivars, gvars, qvars, uvars, vvars, wvars>>

\* lines 115-133 for one of the calls, up to its return or to its suspension
\* in _fetch_text
CLoad(c) ==
    /\ cpc[c] = "idle"
    /\ IF mem.present /\ now - mem.loaded_at < CACHE_TTL_SECONDS
       THEN /\ cpc' = [cpc EXCEPT ![c] = "returned"]
            /\ cres' = [cres EXCEPT ![c] = Loaded("memory", mem)]
            /\ UNCHANGED <<mem, cloc>>
       ELSE IF meta.present /\ meta.at # 0 /\ disk.exists /\ now - meta.at < CACHE_TTL_SECONDS
       THEN LET p == parse_lines(disk.text)
            IN  IF p.raises
                THEN /\ cpc' = [cpc EXCEPT ![c] = "raised"]
                     /\ cres' = [cres EXCEPT ![c] = Loaded("disk", NoSnapshot)]
                     /\ UNCHANGED <<mem, cloc>>
                ELSE /\ cpc' = [cpc EXCEPT ![c] = "returned"]
                     /\ mem' = FeedData(p.urls, p.domains, meta.at, FALSE, disk.born)
                     /\ cres' = [cres EXCEPT ![c] = Loaded("disk", mem')]
                     /\ UNCHANGED cloc
       ELSE /\ cpc' = [cpc EXCEPT ![c] = "fetch"]
            /\ cloc' = [cloc EXCEPT ![c] = [now |-> now, cached_at |-> meta]]
            /\ UNCHANGED <<mem, cres>>
    /\ UNCHANGED <<now, disk, meta, lpc, lres, avars, fvars, nvars, ivars, gvars, qvars, uvars, vvars, wvars>>

\* lines 134-141 for one of the calls, resumed with the text: the file, the
\* time read at entry into meta.json, the snapshot into _cache
CRefreshOk(c) ==
    /\ cpc[c] = "fetch"
    /\ \E text \in FetchedTexts :
         LET p == parse_lines(text)
         IN  /\ disk' = File(text, now)
             /\ meta' = Meta(cloc[c].now)
             /\ IF p.raises
                THEN /\ cpc' = [cpc EXCEPT ![c] = "raised"]
                     /\ cres' = [cres EXCEPT ![c] = Loaded("network", NoSnapshot)]
                     /\ UNCHANGED mem
                ELSE /\ cpc' = [cpc EXCEPT ![c] = "returned"]
                     /\ mem' = FeedData(p.urls, p.domains, cloc[c].now, FALSE, now)
                     /\ cres' = [cres EXCEPT ![c] = Loaded("network", mem')]
    /\ UNCHANGED <<now, lpc, lres, cloc, avars, fvars, nvars, ivars, gvars, qvars, uvars, vvars, wvars>>

\* lines 142-150 for one of the calls, resumed with the exception
CRefreshFail(c) ==
    /\ cpc[c] = "fetch"
    /\ IF disk.exists
       THEN LET p == parse_lines(disk.text)
                at == cloc[c].cached_at
            IN  IF p.raises
                THEN /\ cpc' = [cpc EXCEPT ![c] = "raised"]
                     /\ cres' = [cres EXCEPT ![c] = Loaded("failed", NoSnapshot)]
                     /\ UNCHANGED mem
                ELSE /\ cpc' = [cpc EXCEPT ![c] = "returned"]
                     /\ mem' = FeedData(p.urls, p.domains,
                                        IF at.present /\ at.at # 0 THEN at.at ELSE cloc[c].now, TRUE,
                                        disk.born)
                     /\ cres' = [cres EXCEPT ![c] = Loaded("failed", mem')]
       ELSE /\ cpc' = [cpc EXCEPT ![c] = "returned"]
            /\ cres' = [cres EXCEPT ![c] = Loaded("failed", FeedData({}, {}, cloc[c].now, TRUE, now))]
            /\ UNCHANGED mem
    /\ UNCHANGED <<now, disk, meta, lpc, lres, cloc, avars, fvars, nvars, ivars, gvars, qvars, uvars, vvars, wvars>>

\* the analysis goes on and another one calls check_url
CNextCall(c) ==
    /\ cpc[c] \in {"returned", "raised"}
    /\ cpc' = [cpc EXCEPT ![c] = "idle"]
    /\ UNCHANGED <<now, mem, disk, meta, lpc, lres, cloc, cres, avars, fvars, nvars, ivars, gvars, qvars, uvars, vvars, wvars>>

CNext ==
    \/ CTick
    \/ \E c \in Callers : CLoad(c)
    \/ \E c \in Callers : CRefreshOk(c)
    \/ \E c \in Callers : CRefreshFail(c)
    \/ \E c \in Callers : CNextCall(c)

ConcFeedInit == AOff /\ FIdle /\ NIdle /\ IIdle /\ GIdle /\ CInit /\ QIdle /\ UIdle /\ VIdle /\ WIdle

ConcFeedSpec == ConcFeedInit /\ [][CNext]_vars

\* the calls inside the refresh section
Refreshing == {c \in Callers : cpc[c] = "fetch"}

\* C26: at most one execution of _load_feed is inside the refresh section
\* (from the network fetch to the store into the in-memory cache) at any
\* time.
C26_OneRefresher == Cardinality(Refreshing) <= 1

(***************************************************************************)
(* safe_browsing.check_url and its cache, called concurrently              *)
(***************************************************************************)
\* safe_browsing.CACHE_TTL_SECONDS (threat_feeds has a constant of this name)
GSB_CACHE_TTL_SECONDS == 30 * 60
ERROR_CACHE_TTL_SECONDS == 3 * 60
MAX_CACHE_ITEMS == 2000

\* loop.time() when calls are made: an entry written at 0 is as old as its
\* TTL at 180 (an error result) or at 1800 (a clean result or a hit)
GInstants == {0, 180, 1800, 2000}

\* The url argument by what lines 95-109 make of it: normalize_for_lookup
\* raises, the canonical URL is too long, or the canonical URL is the key.
\* "Example.com" and "https://example.com/" have one canonical URL.
GUrl(kind, key) == [kind |-> kind, key |-> key]
GUrls ==
    {GUrl("ok", "https://example.com/"), GUrl("ok", "https://other.example/"),
     GUrl("bad", ""), GUrl("long", "")}

GsbBadUrl == LookupResult("error", "Google Safe Browsing: nekorrektnyi URL.")
GsbNetwork == LookupResult("error", "Google Safe Browsing: oshibka seti.")
GsbForbidden == LookupResult("error", "Google Safe Browsing: dostup zapreshchen (403).")
GsbStatus(status) == LookupResult("error", "Google Safe Browsing: oshibka " \o status \o ".")
NoLookup == LookupResult("none", "")

\* What _post_json may do: raise TimeoutError or ClientError, raise something
\* else (a body that is no JSON object), or give a status, with matches or not
Responses == {"timeout", "clienterror", "other", "429", "503", "403", "500", "clean", "hit"}

Entry(key, ts, ttl, result) == [key |-> key, ts |-> ts, ttl |-> ttl, result |-> result]

Without(cache, key) == SelectSeq(cache, LAMBDA e : e.key # key)

RECURSIVE Evict(_)
\* _cache_set dropping the newest entries when the bound is exceeded
Evict_Newest(cache) == IF Len(cache) > MAX_CACHE_ITEMS THEN SubSeq(cache, 1, MAX_CACHE_ITEMS) ELSE cache

Evict(cache) == IF Len(cache) > MAX_CACHE_ITEMS THEN Evict(Tail(cache)) ELSE cache

\* _cache_set: the key becomes the newest entry, the oldest go
cache_set(cache, key, result, ttl, t) == Evict(Append(Without(cache, key), Entry(key, t, ttl, result)))

Cached(cache, key) == \E i \in 1..Len(cache) : cache[i].key = key
EntryOf(cache, key) == cache[CHOOSE i \in 1..Len(cache) : cache[i].key = key]

\* _cache_get with an entry as old as its TTL taken for expired
Fresh_Strict(cache, key, t) == Cached(cache, key) /\ t - EntryOf(cache, key).ts < EntryOf(cache, key).ttl

\* _cache_get: the result when the entry is there and not older than its TTL
Fresh(cache, key, t) == Cached(cache, key) /\ t - EntryOf(cache, key).ts <= EntryOf(cache, key).ttl

GInit ==
    /\ gcache = <<>>
    /\ gpc = [c \in Callers |-> "idle"]
    /\ gloc = [c \in Callers |-> [key |-> "", attempt |-> 0, first |-> ""]]
    /\ gres = [c \in Callers |-> NoLookup]
    /\ gsent = [c \in Callers |-> 0]

\* time passes while no call is suspended
GTick ==
    /\ \A c \in Callers : gpc[c] \in {"idle", "returned", "raised"}
    /\ \E t \in GInstants : t > now /\ now' = t
    /\ UNCHANGED <<mem, disk, meta, lpc, lres, gvars, avars, fvars, nvars, ivars, cvars, qvars, uvars, vvars, wvars>>

GReturn(c, result) ==
    /\ gpc' = [gpc EXCEPT ![c] = "returned"]
    /\ gres' = [gres EXCEPT ![c] = result]

\* lines 88-127 for one call: up to a return or to the first request
GCall(c) ==
    /\ gpc[c] = "idle"
    /\ \E api_key \in Keys, url \in GUrls :
         IF api_key \in {None, ""}
         THEN GReturn(c, GsbNotConfigured) /\ UNCHANGED <<gcache, gloc, gsent>>
         ELSE IF url.kind = "bad"
         THEN GReturn(c, GsbBadUrl) /\ UNCHANGED <<gcache, gloc, gsent>>
         ELSE IF url.kind = "long"
         THEN GReturn(c, GsbTooLong) /\ UNCHANGED <<gcache, gloc, gsent>>
         ELSE IF Fresh(gcache, url.key, now)
         THEN /\ GReturn(c, EntryOf(gcache, url.key).result)
              /\ gloc' = [gloc EXCEPT ![c] = [key |-> url.key, attempt |-> 0, first |-> ""]]
              /\ UNCHANGED <<gcache, gsent>>
         ELSE /\ gcache' = Without(gcache, url.key)
              /\ gpc' = [gpc EXCEPT ![c] = "request"]
              /\ gloc' = [gloc EXCEPT ![c] = [key |-> url.key, attempt |-> 0, first |-> ""]]
              /\ gsent' = [gsent EXCEPT ![c] = 1]
              /\ gres' = [gres EXCEPT ![c] = NoLookup]
    /\ UNCHANGED <<dvars, avars, fvars, nvars, ivars, cvars, qvars, uvars, vvars, wvars>>

\* the loop going round after any failure of the first attempt
Retried_AnyFailure(r, attempt) ==
    r \in {"timeout", "clienterror", "429", "503", "403", "500"} /\ attempt = 0

\* lines 128-153: what makes the loop go round again (sleep, continue)
Retried(r, attempt) == r \in {"timeout", "clienterror", "429", "503"} /\ attempt = 0

GStore(c, result, ttl) ==
    /\ gcache' = cache_set(gcache, gloc[c].key, result, ttl, now)
    /\ GReturn(c, result)
    /\ UNCHANGED <<gloc, gsent>>

\* lines 127-189 for one call: _post_json is over
GResponse(c) ==
    /\ gpc[c] = "request"
    /\ \E r \in Responses :
         IF r = "other"
         THEN /\ gpc' = [gpc EXCEPT ![c] = "raised"]
              /\ UNCHANGED <<gcache, gloc, gres, gsent>>
         ELSE IF Retried(r, gloc[c].attempt)
         THEN /\ gpc' = [gpc EXCEPT ![c] = "backoff"]
              /\ gloc' = [gloc EXCEPT ![c].first = r]
              /\ UNCHANGED <<gcache, gres, gsent>>
         ELSE CASE r = "timeout" -> GStore(c, GsbError, ERROR_CACHE_TTL_SECONDS)
                [] r = "clienterror" -> GStore(c, GsbNetwork, ERROR_CACHE_TTL_SECONDS)
                [] r = "403" -> GStore(c, GsbForbidden, ERROR_CACHE_TTL_SECONDS)
                [] r \in {"429", "503", "500"} -> GStore(c, GsbStatus(r), ERROR_CACHE_TTL_SECONDS)
                [] r = "clean" -> GStore(c, GsbClean, GSB_CACHE_TTL_SECONDS)
                [] r = "hit" -> GStore(c, GsbHit, GSB_CACHE_TTL_SECONDS)
    /\ UNCHANGED <<dvars, avars, fvars, nvars, ivars, cvars, qvars, uvars, vvars, wvars>>

\* the backoff sleep is over: the second attempt
GRetry(c) ==
    /\ gpc[c] = "backoff"
    /\ gpc' = [gpc EXCEPT ![c] = "request"]
    /\ gloc' = [gloc EXCEPT ![c] = [@ EXCEPT !.attempt = 1, !.first = ""]]
    /\ gsent' = [gsent EXCEPT ![c] = @ + 1]
    /\ UNCHANGED <<gcache, gres, dvars, avars, fvars, nvars, ivars, cvars, qvars, uvars, vvars, wvars>>

GNextCall(c) ==
    /\ gpc[c] \in {"returned", "raised"}
    /\ gpc' = [gpc EXCEPT ![c] = "idle"]
    /\ gsent' = [gsent EXCEPT ![c] = 0]
    /\ gres' = [gres EXCEPT ![c] = NoLookup]
    /\ gloc' = [gloc EXCEPT ![c] = [key |-> "", attempt |-> 0, first |-> ""]]
    /\ UNCHANGED <<gcache, dvars, avars, fvars, nvars, ivars, cvars, qvars, uvars, vvars, wvars>>

GNext ==
    \/ GTick
    \/ \E c \in Callers : GCall(c)
    \/ \E c \in Callers : GResponse(c)
    \/ \E c \in Callers : GRetry(c)
    \/ \E c \in Callers : GNextCall(c)

GsbInit == AOff /\ FIdle /\ NIdle /\ DIdle /\ IIdle /\ CIdle /\ GInit /\ QIdle /\ UIdle /\ VIdle /\ WIdle

GsbSpec == GsbInit /\ [][GNext]_vars

\* the calls between their cache miss and their cache store
Between == {c \in Callers : gpc[c] \in {"request", "backoff"}}

\* C27: two concurrent check_url calls for the same canonical URL are never
\* both between their cache miss and their cache store.
C27_OneWriter ==
    \A c, d \in Between : gloc[c].key = gloc[d].key => c = d

\* what _load_feed finds when it is called
MemFresh == mem.present /\ now - mem.loaded_at < CACHE_TTL_SECONDS
DiskFresh == disk.exists /\ meta.present /\ now - meta.at < CACHE_TTL_SECONDS
LoadStep == lpc = "idle" /\ lpc' # "idle"

\* C28: _load_feed starts a network fetch only when there is neither a
\* snapshot in memory younger than 6 h nor a copy on disk whose recorded
\* fetch time is younger than 6 h; otherwise it returns, without a network
\* request, the snapshot in memory, or the parsed copy on disk with
\* stale=false, which it also stores in memory.
C28_FetchOnlyWhenExpired ==
    [][LoadStep =>
        /\ lpc' = "fetch" <=> (~MemFresh /\ ~DiskFresh)
        /\ MemFresh => (lpc' = "returned" /\ lres'.data = mem /\ mem' = mem)
        /\ (~MemFresh /\ DiskFresh) =>
              /\ lpc' = "returned"
              /\ ~lres'.data.stale
              /\ lres'.data.urls = Listed(disk.text).urls
              /\ lres'.data.domains = Listed(disk.text).domains
              /\ mem' = lres'.data]_vars

\* C29: every snapshot _load_feed returns with stale=false was fetched from
\* the network less than 6 h before the call, files and meta.json of an
\* earlier run of the process included.
C29_FreshMeansRecent ==
    (lpc = "returned" /\ ~lres.data.stale) =>
        /\ lres.data.born <= now
        /\ now - lres.data.born < CACHE_TTL_SECONDS

\* C30: after _load_feed returned a stale snapshot because the refresh
\* failed, the next _load_feed call attempts the network refresh again.
C30_StaleIsRetried ==
    [][(LoadStep /\ lres.via = "failed" /\ lres.data.present /\ lres.data.stale) => lpc' = "fetch"]_vars


(***************************************************************************)
(* threat_feeds.check_url: the findings                                    *)
(***************************************************************************)
UrlListed == Canonical(lin.url) \in lres.data.urls
HostListed == LowerText(lin.host) \in lres.data.domains
MarkedStale(f) == f.detail \in {"sovpadenie URL (kesh ustarel)", "sovpadenie domena (kesh ustarel)"}

\* C31: for the feed, check_url returns at most one finding: a url match
\* when the canonical URL is in the snapshot's URL set, also when the host is
\* in the domain set; otherwise a domain match when the host is in the domain
\* set; otherwise nothing.  The detail of a finding says the cache is stale
\* exactly when the snapshot is stale.
C31_OneFindingPerFeed ==
    lpc = "returned" =>
        /\ Len(lout) <= Len(FEEDS)
        /\ UrlListed => (Len(lout) = 1 /\ lout[1].match_type = "url")
        /\ (~UrlListed /\ HostListed) => (Len(lout) = 1 /\ lout[1].match_type = "domain")
        /\ (~UrlListed /\ ~HostListed) => lout = <<>>
        /\ \A i \in 1..Len(lout) :
             /\ lout[i].source = FEEDS[i]
             /\ MarkedStale(lout[i]) <=> lres.data.stale

\* a stale snapshot lists the URL and its host: one finding, the url match
C31_Witness ==
    /\ lpc = "returned"
    /\ lres.via = "failed"
    /\ lres.data.stale
    /\ UrlListed /\ HostListed
    /\ Len(lout) = 1 /\ lout[1].match_type = "url" /\ MarkedStale(lout[1])


(***************************************************************************)
(* safe_browsing.check_url: the cache and the retry                        *)
(***************************************************************************)
\* the step in which a call is made, and the canonical URL of a call that
\* came to look into the cache
CallStep(c) == gpc[c] = "idle" /\ gpc'[c] # "idle"
TtlOf(result) == IF result.status \in {"clean", "hit"} THEN 30 * 60 ELSE 3 * 60
NotExpired(key) ==
    /\ Cached(gcache, key)
    /\ now - EntryOf(gcache, key).ts <= TtlOf(EntryOf(gcache, key).result)

\* C32: a call answers from the cache, without a remote request, exactly
\* when there is an entry for the canonical URL whose age does not exceed its
\* TTL (30 minutes for clean and hit, 3 minutes for error); an expired entry
\* is removed and a request is made.
C32_CacheWithinTtl ==
    [][\A c \in Callers :
         (CallStep(c) /\ gloc'[c].key # "") =>
            IF NotExpired(gloc'[c].key)
            THEN /\ gpc'[c] = "returned"
                 /\ gsent'[c] = 0
                 /\ gres'[c] = EntryOf(gcache, gloc'[c].key).result
                 /\ gcache' = gcache
            ELSE /\ gpc'[c] = "request"
                 /\ gsent'[c] = 1
                 /\ ~Cached(gcache', gloc'[c].key)]_vars

\* a call answered by an entry exactly as old as its TTL, and a call that
\* found nothing in the cache at a later time
AnsweredAtTtl(c) ==
    /\ gpc[c] = "returned" /\ gsent[c] = 0 /\ gloc[c].key # ""
    /\ Cached(gcache, gloc[c].key)
    /\ now - EntryOf(gcache, gloc[c].key).ts = EntryOf(gcache, gloc[c].key).ttl
    /\ gres[c] = EntryOf(gcache, gloc[c].key).result

C32_Witness ==
    /\ AnsweredAtTtl("a")
    /\ gres["a"].status = "error"
    /\ gpc["b"] = "request" /\ gloc["b"].key # gloc["a"].key /\ now > 0


(***************************************************************************)
(* safe_browsing._cache_set on a cache that is full or nearly so           *)
(***************************************************************************)
\* canonical URL number i, and a cache of n entries written one a second
KeyNo(i) == "https://example.com/" \o ToString(i)
Filled(n) == [i \in 1..n |-> Entry(KeyNo(i), i, GSB_CACHE_TTL_SECONDS, GsbClean)]

\* sizes of the cache before the writes, _cache_set calls made in a behaviour
CacheSizes == {0, 1, MAX_CACHE_ITEMS - 1, MAX_CACHE_ITEMS}
MaxWrites == 2

\* keys written: the oldest, two in the middle, the newest, two new ones
WrittenKeys == {KeyNo(1), KeyNo(2), KeyNo(1000), KeyNo(MAX_CACHE_ITEMS), KeyNo(3000), KeyNo(3001)}

\* the process has made lookups for n URLs, none is suspended
WInit ==
    /\ now = MAX_CACHE_ITEMS
    /\ mem = NoSnapshot
    /\ disk = NoFile
    /\ meta = NoMeta
    /\ lpc = "off"
    /\ lres = Loaded("none", NoSnapshot)
    /\ \E n \in CacheSizes : gcache = Filled(n)
    /\ gpc = [c \in Callers |-> "off"]
    /\ gloc = [c \in Callers |-> [key |-> "", attempt |-> 0, first |-> ""]]
    /\ gres = [c \in Callers |-> NoLookup]
    /\ gsent = [c \in Callers |-> 0]
    /\ wkey = ""
    /\ wbefore = <<>>
    /\ wn = 0

\* time passes between two writes
WTick ==
    /\ now = MAX_CACHE_ITEMS
    /\ now' = now + 60
    /\ UNCHANGED <<mem, disk, meta, lpc, lres, gvars, wvars, avars, fvars, nvars, ivars, cvars, qvars, uvars, vvars>>

\* _cache_set(key, result, ttl), lines 66-72
CacheSet ==
    /\ wn < MaxWrites
    /\ \E key \in WrittenKeys, r \in {GsbClean, GsbError} :
         /\ gcache' = cache_set(gcache, key, r, TtlOf(r), now)
         /\ wkey' = key
    /\ wbefore' = gcache
    /\ wn' = wn + 1
    /\ UNCHANGED <<gpc, gloc, gres, gsent, dvars, avars, fvars, nvars, ivars, cvars, qvars, uvars, vvars>>

WNext == WTick \/ CacheSet

CacheInit == AOff /\ FIdle /\ NIdle /\ IIdle /\ CIdle /\ QIdle /\ UIdle /\ VIdle /\ WInit

CacheSpec == CacheInit /\ [][WNext]_vars

\* the entries of the cache before the write, without the key written
Others == SelectSeq(wbefore, LAMBDA e : e.key # wkey)

\* C33: after every write the cache holds at most 2000 entries; the entry
\* just written is there and is the newest; the entries removed are the
\* oldest, and as few as the bound asks for.
C33_BoundedOldestOut ==
    /\ Len(gcache) <= 2000
    /\ wn > 0 =>
         LET others == Others
             dropped == Max(0, Len(others) + 1 - 2000)
         IN  /\ gcache[Len(gcache)].key = wkey
             /\ Len(gcache) = Len(others) + 1 - dropped
             /\ SubSeq(gcache, 1, Len(gcache) - 1) = SubSeq(others, dropped + 1, Len(others))

\* a full cache, a new key written: the oldest entry went; then the oldest
\* of the remaining ones rewritten: it is the newest and nothing went
C33_Witness ==
    /\ wn = 2
    /\ Len(wbefore) = 2000 /\ Len(gcache) = 2000
    /\ wbefore[1].key = KeyNo(2) /\ wbefore[2000].key = KeyNo(3000)
    /\ wkey = KeyNo(2)
    /\ gcache[2000].key = KeyNo(2) /\ gcache[1].key = KeyNo(3)


\* a call that is over, and the error results that tell of a transient
\* failure of the attempt they come from
Over(c) == gpc[c] \in {"returned", "raised"}
Transient == {GsbError, GsbStatus("429"), GsbStatus("503")}

\* C34: a call sends at most two requests; after a transient failure of the
\* first attempt (429, 503, timeout) the call does not end: it sleeps and
\* sends the second request; after the second request the call returns, with
\* status error when that attempt failed, and sends nothing more.
C34_AtMostTwoAttempts ==
    \A c \in Callers :
        /\ gsent[c] <= 2
        /\ gpc[c] = "backoff" => (gsent[c] = 1 /\ gloc[c].attempt = 0)
        /\ (gpc[c] = "returned" /\ gsent[c] = 1) => gres[c] \notin Transient
        /\ (Over(c) /\ gsent[c] = 2) =>
              /\ gpc[c] = "returned"
              /\ gres[c].status \in {"clean", "hit", "error"}


(***************************************************************************)
(* urlscan.scan_url: submission, retry and the single poll                 *)
(***************************************************************************)
\* a request scan_url sent, the attempt it belongs to and how it ended
\* ("pending" while it is in flight)
Req(kind, attempt, outcome) == [kind |-> kind, attempt |-> attempt, outcome |-> outcome]

\* How the submission POST may end: TimeoutError, ClientError, a status that
\* is not 200, 200 with a Content-Type that is not JSON (ContentTypeError, a
\* ClientError), 200 with a body that json() does not parse (an exception
\* that is neither), 200 without a uuid, 200 with a uuid and a result link,
\* 200 with a uuid alone
PostOutcomes ==
    {"timeout", "clienterror", "429", "503", "500", "200wrongtype", "200badjson", "200nouuid",
     "200uuid", "200uuidonly"}

\* how the GET of the result endpoint may end
PollOutcomes == {"timeout", "clienterror", "200", "404"}

ScanStatus(status) == UrlscanResult("error", "urlscan.io: oshibka " \o status \o ".", None)
ScanBadAnswer == UrlscanResult("error", "urlscan.io: nevernyi otvet.", None)
ScanNetwork == UrlscanResult("error", "urlscan.io: oshibka seti.", None)

\* data.get("result"), and _result_endpoint(uuid)
ResultLink == "https://urlscan.io/result/u1/"
ResultEndpoint == "https://urlscan.io/api/v1/result/u1/"

UInit == upc = "idle" /\ uattempt = 0 /\ usent = <<>> /\ ures = NoScan

Ended(log, outcome) == [log EXCEPT ![Len(log)].outcome = outcome]

UReturn(result) == upc' = "returned" /\ ures' = result

\* lines 28-41: without a key return at once, else send the submission
ScanCall ==
    /\ upc = "idle"
    /\ \E api_key \in Keys :
         IF api_key \in {None, ""}
         THEN UReturn(ScanNotConfigured) /\ UNCHANGED <<uattempt, usent>>
         ELSE /\ upc' = "post"
              /\ uattempt' = 0
              /\ usent' = <<Req("post", 0, "pending")>>
              /\ UNCHANGED ures
    /\ UNCHANGED <<avars, fvars, nvars, dvars, ivars, cvars, gvars, qvars, vvars, wvars>>

\* lines 74-83: TimeoutError or ClientError anywhere in the attempt, the
\* submission or the poll
ScanExcept(timeout) ==
    IF uattempt = 0
    THEN upc' = "backoff" /\ UNCHANGED ures
    ELSE UReturn(IF timeout THEN ScanError ELSE ScanNetwork)

\* lines 41-61: the submission is answered, or raises
ScanPosted ==
    /\ upc = "post"
    /\ \E o \in PostOutcomes :
         /\ usent' = Ended(usent, o)
         /\ CASE o = "timeout" -> ScanExcept(TRUE)
              [] o \in {"clienterror", "200wrongtype"} -> ScanExcept(FALSE)
              [] o \in {"429", "503"} /\ uattempt = 0 -> upc' = "backoff" /\ UNCHANGED ures
              [] o \in {"429", "503"} /\ uattempt # 0 -> UReturn(ScanStatus(o))
              [] o = "500" -> UReturn(ScanStatus(o))
              [] o = "200badjson" -> upc' = "raised" /\ UNCHANGED ures
              [] o = "200nouuid" -> UReturn(ScanBadAnswer)
              [] o = "200uuid" -> upc' = "wait" /\ ures' = [NoScan EXCEPT !.result_url = ResultLink]
              [] o = "200uuidonly" -> upc' = "wait" /\ ures' = [NoScan EXCEPT !.result_url = ResultEndpoint]
    /\ UNCHANGED <<uattempt, avars, fvars, nvars, dvars, ivars, cvars, gvars, qvars, vvars, wvars>>

\* lines 61-62: the sleep of 1.0 s is over, the result endpoint is asked
ScanWaited ==
    /\ upc = "wait"
    /\ upc' = "poll"
    /\ usent' = Append(usent, Req("get", uattempt, "pending"))
    /\ UNCHANGED <<uattempt, ures, avars, fvars, nvars, dvars, ivars, cvars, gvars, qvars, vvars, wvars>>

\* lines 62-73: the poll is answered, or raises
ScanPolled ==
    /\ upc = "poll"
    /\ \E o \in PollOutcomes :
         /\ usent' = Ended(usent, o)
         /\ CASE o = "timeout" -> ScanExcept(TRUE)
              [] o = "clienterror" -> ScanExcept(FALSE)
              [] o = "200" -> UReturn(UrlscanResult("ready", "urlscan.io: otchet gotov.", ures.result_url))
              [] o = "404" -> UReturn(UrlscanResult("queued", "urlscan.io: otchet v ocheredi.", ures.result_url))
    /\ UNCHANGED <<uattempt, avars, fvars, nvars, dvars, ivars, cvars, gvars, qvars, vvars, wvars>>

\* the backoff sleep is over: the loop goes round, the submission is sent
ScanRetry ==
    /\ upc = "backoff"
    /\ upc' = "post"
    /\ uattempt' = 1
    /\ usent' = Append(usent, Req("post", 1, "pending"))
    /\ ures' = NoScan
    /\ UNCHANGED <<avars, fvars, nvars, dvars, ivars, cvars, gvars, qvars, vvars, wvars>>

UNext ==
    \/ ScanCall
    \/ ScanPosted
    \/ ScanWaited
    \/ ScanPolled
    \/ ScanRetry

(***************************************************************************)
(* reputation.check_reputation                                             *)
(***************************************************************************)
\* how the GET may end: TimeoutError, ClientError (a Content-Type that is not
\* JSON included), a status, 200 with statistics, 200 with a body json() does
\* not parse
VtOutcomes == {"timeout", "clienterror", "404", "429", "500", "200clean", "200hit", "200badjson"}

VtRateLimit == LookupResult("error", "VirusTotal: rate limit, try later.")
VtStatus(status) == LookupResult("error", "VirusTotal: error " \o status \o ".")
VtNetwork == LookupResult("error", "VirusTotal: network error.")
VtNoDetections == LookupResult("clean", "VirusTotal: detections 0/70 (malicious=0, suspicious=0).")

VInit == vpc = "idle" /\ vsent = 0 /\ vres = NoReputation

\* lines 33-43
ReputationCall ==
    /\ vpc = "idle"
    /\ \E api_key \in Keys :
         IF api_key \in {None, ""}
         THEN vpc' = "returned" /\ vres' = VtNotConfigured /\ UNCHANGED vsent
         ELSE vpc' = "request" /\ vsent' = 1 /\ UNCHANGED vres
    /\ UNCHANGED <<avars, fvars, nvars, dvars, ivars, cvars, gvars, qvars, uvars, wvars>>

\* lines 43-78
ReputationAnswered ==
    /\ vpc = "request"
    /\ \E o \in VtOutcomes :
         IF o = "200badjson"
         THEN vpc' = "raised" /\ UNCHANGED vres
         ELSE /\ vpc' = "returned"
              /\ vres' = CASE o = "timeout" -> VtError
                           [] o = "clienterror" -> VtNetwork
                           [] o = "404" -> VtClean
                           [] o = "429" -> VtRateLimit
                           [] o = "500" -> VtStatus(o)
                           [] o = "200clean" -> VtNoDetections
                           [] o = "200hit" -> VtHit
    /\ UNCHANGED <<vsent, avars, fvars, nvars, dvars, ivars, cvars, gvars, qvars, uvars, wvars>>

VNext == ReputationCall \/ ReputationAnswered


(***************************************************************************)
(* The three lookups side by side: one check_url call, one scan_url call,  *)
(* one check_reputation call                                               *)
(***************************************************************************)
\* the caller whose check_url call is followed
Looker == "a"

LookupInit ==
    /\ AOff /\ FIdle /\ NIdle /\ DIdle /\ IIdle /\ CIdle /\ QIdle /\ WIdle
    /\ gcache = <<>>
    /\ gpc = [c \in Callers |-> IF c = Looker THEN "idle" ELSE "off"]
    /\ gloc = [c \in Callers |-> [key |-> "", attempt |-> 0, first |-> ""]]
    /\ gres = [c \in Callers |-> NoLookup]
    /\ gsent = [c \in Callers |-> 0]
    /\ UInit
    /\ VInit

LookupNext ==
    \/ GCall(Looker)
    \/ GResponse(Looker)
    \/ GRetry(Looker)
    \/ ScanCall
    \/ ScanPosted
    \/ ScanWaited
    \/ ScanPolled
    \/ ScanRetry
    \/ ReputationCall
    \/ ReputationAnswered

LookupSpec == LookupInit /\ [][LookupNext]_vars

\* the requests of scan_url so far that are submissions
Posts == SelectSeq(usent, LAMBDA r : r.kind = "post")
\* the requests of scan_url so far that poll the result endpoint
Polls == SelectSeq(usent, LAMBDA r : r.kind = "get")
\* in the backoff, how the first attempt of scan_url ended: the outcome of
\* its last request
FirstEnded == usent[Len(usent)].outcome

ScanInit ==
    /\ AOff /\ FIdle /\ NIdle /\ DIdle /\ IIdle /\ CIdle /\ GIdle /\ QIdle /\ VIdle /\ WIdle
    /\ UInit

ScanSpec == ScanInit /\ [][UNext]_vars

\* a submission the service accepted: HTTP 200 with a uuid
ScanAccepted(r) == r.kind = "post" /\ r.outcome \in {"200uuid", "200uuidonly"}
AcceptedPosts == SelectSeq(usent, ScanAccepted)
ScanGave(status) == upc = "returned" /\ ures.status = status

\* the poll was answered: the result endpoint gave a status
Answered(r) == r.kind = "get" /\ r.outcome \in {"200", "404"}

\* C36: after an accepted submission scan_url polls the result endpoint
\* exactly once in the call, never a second time, and when the poll is
\* answered it returns ready for 200 and queued for any other status, both
\* with a result link
C36_PollOnce ==
    /\ Len(Polls) <= 1
    /\ upc = "poll" => ScanAccepted(usent[Len(usent) - 1])
    /\ (upc = "returned" /\ Len(Polls) > 0 /\ Answered(usent[Len(usent)])) =>
          /\ ures.status = (IF usent[Len(usent)].outcome = "200" THEN "ready" ELSE "queued")
          /\ ures.result_url \in {ResultLink, ResultEndpoint}


\* C37: within one scan_url call, once a submission has been accepted (HTTP
\* 200 with a uuid) no further submission is sent, whatever happens to the
\* poll that follows
C37_SubmittedOnce ==
    \A i \in 1..Len(usent), j \in 1..Len(usent) :
        (i < j /\ ScanAccepted(usent[i])) => usent[j].kind # "post"


(***************************************************************************)
(* The body cap of safe_fetch                                              *)
(***************************************************************************)
\* Content-Length advertises more than the cap
OverCap(content_length) ==
    content_length.present /\ content_length.isdigit /\ content_length.value > MAX_BODY_BYTES

\* what C38 says of one response, for a given most number of bytes read
ReadWithin(r, most) ==
    /\ r.n <= most
    /\ r.n > 0 => (~r.redirect /\ r.content_type # None /\ IsHtml(r.content_type))
    /\ OverCap(r.content_length) => r.n = 0
    /\ r.redirect => r.n = 0

\* what C38 says of the FetchResult
BodyTextWithin ==
    (FetchDone /\ fres.body_text.present) =>
        /\ fres.content_type # None /\ IsHtml(fres.content_type)
        /\ fres.body_text.size <= MAX_BODY_BYTES
        /\ fres.body_text.size = Last(reads).n

\* C38 (as stated): safe_fetch reads at most 200 000 bytes of a response
\* body, only of a terminal text/html response, none when Content-Length
\* advertises more than the cap and none of a redirect response; body_text is
\* non-null only for text/html and holds at most 200 000 bytes
C38_ReadsAtMostCap ==
    /\ \A i \in 1..Len(reads) : ReadWithin(reads[i], MAX_BODY_BYTES)
    /\ BodyTextWithin

\* C38 (amended): safe_fetch reads at most 200 001 bytes of a response body,
\* one more than the cap, and a body of which 200 001 bytes were read is
\* dropped; the rest as stated
C38_ReadsAtMostCapPlusOne ==
    /\ \A i \in 1..Len(reads) : ReadWithin(reads[i], MAX_BODY_BYTES + 1)
    /\ (FetchDone /\ Len(reads) > 0 /\ Last(reads).n > MAX_BODY_BYTES) => ~fres.body_text.present
    /\ BodyTextWithin

\* after a redirect, a text/html response without Content-Length whose body
\* is longer than the cap: 200 001 bytes were read and body_text is null
C38_Witness ==
    /\ FetchDone
    /\ Len(reads) = 2
    /\ reads[1].redirect /\ reads[1].n = 0
    /\ reads[2].n = MAX_BODY_BYTES + 1
    /\ ~fres.body_text.present
    /\ fres.error = None


\* C39: at every hop the GET connects to one of the addresses
\* _host_is_allowed validated for that hop, so no request reaches a forbidden
\* address, even when the DNS answers of a host change between resolutions
C39_ConnectsToValidated ==
    \A i \in 1..Len(gets) :
        gets[i].addr # None =>
            /\ gets[i].addr \in checked[i].ips
            /\ ~is_forbidden_ip(gets[i].addr)

====
